---- MODULE Spec2Model ----
(***************************************************************************)
(* A model of the decomposition rules (torch/_decomp/decompositions.py)    *)
(* and the meta-shape rules (torch/_meta_registrations.py).                *)
(*                                                                         *)
(* Every rule is a pure, single-invocation function.  One invocation is    *)
(* modelled as a pair of variables: `call` holds the operator name and its *)
(* arguments, `ret` holds what the rule returned (or the failure it ended  *)
(* in).  The initial states are the pending calls; each action runs one    *)
(* rule to completion.                                                     *)
(*                                                                         *)
(* Python positions and dims are 0-based; TLA+ sequences are 1-based, so   *)
(* dim d of a shape s is s[d + 1].                                         *)
(***************************************************************************)
EXTENDS Integers, Sequences, FiniteSets, TLC

VARIABLES call, ret

vars == <<call, ret>>

\* ------------------------------------------------------------------------
\* Results of a rule: a value, or the exception it raised.

NoRet == [status |-> "pending"]

Ok(v) == [status |-> "ok", value |-> v]

Raise(kind) == [status |-> "error", kind |-> kind]

\* ------------------------------------------------------------------------
\* Bounds of the model.

\* tensors have 1..MaxRank dims
MaxRank == 2
\* each dim of a tensor given to split has length 0..MaxDim
MaxDim == 7
\* split_size ranges over 0..MaxSplitSize
MaxSplitSize == 4
\* each dim of a tensor given to split_with_sizes has length 0..MaxSwsDim,
\* and so does each requested length
MaxSwsDim == 3
\* split_with_sizes gets 0..MaxSplits requested lengths
MaxSplits == 2

\* ------------------------------------------------------------------------
\* Generic helpers.

RECURSIVE SumSeq(_)
SumSeq(s) == IF Len(s) = 0 THEN 0 ELSE Head(s) + SumSeq(Tail(s))

SeqsUpTo(S, n) == UNION {[1..k -> S] : k \in 0..n}

ShapesOf(maxdim) == UNION {[1..r -> 0..maxdim] : r \in 1..MaxRank}

\* A dim argument may be negative; Python indexing and the tensor primitives
\* both count a negative dim from the end.
CanonDim(ndim, dim) == IF dim < 0 THEN dim + ndim ELSE dim

DimsOf(shape) == (0 - Len(shape))..(Len(shape) - 1)

\* ------------------------------------------------------------------------
\* Tensors of the split family: a shape, and for each dim the offset of the
\* view's first element in the tensor it was narrowed from.

FullTensor(shape) == [shape |-> shape, base |-> [i \in 1..Len(shape) |-> 0]]

\* Tensor.narrow(dim, start, length): a view of `length` elements along dim,
\* starting at `start`; it fails when the range leaves the dim.
narrow(t, dim, start, length) ==
    LET d == CanonDim(Len(t.shape), dim) + 1
    IN  IF length < 0 \/ start < 0 \/ start + length > t.shape[d]
        THEN Raise("RuntimeError")
        ELSE Ok([shape |-> [t.shape EXCEPT ![d] = length],
                 base  |-> [t.base EXCEPT ![d] = @ + start]])

\* The loop of split_with_sizes: splits.append(self.narrow(dim, start_idx,
\* length)); start_idx += length.  A failing narrow ends the rule.
RECURSIVE split_with_sizes_loop(_, _, _, _, _, _)
split_with_sizes_loop(self, split_sizes, dim, i, start_idx, splits) ==
    IF i > Len(split_sizes) THEN Ok(splits)
    ELSE LET length == split_sizes[i]
             v == narrow(self, dim, start_idx, length)
         IN  IF v.status = "error" THEN v
             ELSE split_with_sizes_loop(self, split_sizes, dim, i + 1,
                                        start_idx + length, Append(splits, v.value))

split_with_sizes(self, split_sizes, dim) ==
    split_with_sizes_loop(self, split_sizes, dim, 1, 0, <<>>)

\* A mutant: the last chunk is not shortened to the remainder.
split_sizes_of_no_remainder(split_size, chunks, dim_size) ==
    [i \in 1..chunks |-> split_size]

\* split_sizes = [split_size for i in range(chunks)];
\* split_sizes[chunks - 1] = split_size - (split_size * chunks - dim_size)
split_sizes_of(split_size, chunks, dim_size) ==
    [i \in 1..chunks |->
        IF i = chunks THEN split_size - (split_size * chunks - dim_size)
        ELSE split_size]

\* split(self, split_size, dim).  With chunks = 0 the list split_sizes is
\* empty and the assignment to split_sizes[chunks - 1] = split_sizes[-1]
\* raises IndexError.
split(self, split_size, dim) ==
    LET input_sizes == self.shape
        dim_size == input_sizes[CanonDim(Len(input_sizes), dim) + 1]
    IN  IF split_size = 0
        THEN IF dim_size = 0 THEN Ok(<<self>>) ELSE Raise("AssertionError")
        ELSE LET chunks == (dim_size + split_size - 1) \div split_size
             IN  IF chunks = 0 THEN Raise("IndexError")
                 ELSE split_with_sizes(
                          self, split_sizes_of(split_size, chunks, dim_size), dim)

\* ------------------------------------------------------------------------
\* The split family as a state machine.

\* The pending calls: a tensor, a dim of it (possibly counted from the end)
\* and a split_size, or a list of requested lengths.
InitSplit ==
    /\ \/ \E s \in ShapesOf(MaxDim), k \in 0..MaxSplitSize :
            \E d \in DimsOf(s) :
               call = [op |-> "split", self |-> FullTensor(s), split_size |-> k, dim |-> d]
       \/ \E s \in ShapesOf(MaxSwsDim), z \in SeqsUpTo(0..MaxSwsDim, MaxSplits) :
            \E d \in DimsOf(s) :
               call = [op |-> "split_with_sizes", self |-> FullTensor(s),
                       split_sizes |-> z, dim |-> d]
    /\ ret = NoRet

DoSplit ==
    /\ call.op = "split"
    /\ ret = NoRet
    /\ ret' = split(call.self, call.split_size, call.dim)
    /\ UNCHANGED call

DoSplitWithSizes ==
    /\ call.op = "split_with_sizes"
    /\ ret = NoRet
    /\ ret' = split_with_sizes(call.self, call.split_sizes, call.dim)
    /\ UNCHANGED call

NextSplit == DoSplit \/ DoSplitWithSizes

SpecSplit == InitSplit /\ [][NextSplit]_vars

\* Length along dim of a view, and the lengths of a list of views.
LenAlong(t, dim) == t.shape[CanonDim(Len(t.shape), dim) + 1]

BaseAlong(t, dim) == t.base[CanonDim(Len(t.shape), dim) + 1]

ChunkLengths(views, dim) == [i \in 1..Len(views) |-> LenAlong(views[i], dim)]

CeilDiv(a, b) == (a + b - 1) \div b

\* C1: for a dim of length L >= 1 and a split_size s >= 1, split returns
\* ceil(L/s) chunks in order, each of length s except the last, whose length
\* is L - s*(ceil(L/s) - 1), between 1 and s; the chunk lengths sum to L.
C1_SplitChunks ==
    (call.op = "split" /\ ret # NoRet
       /\ LenAlong(call.self, call.dim) >= 1 /\ call.split_size >= 1) =>
    LET L == LenAlong(call.self, call.dim)
        s == call.split_size
        n == CeilDiv(L, s)
    IN  /\ ret.status = "ok"
        /\ Len(ret.value) = n
        /\ \A i \in 1..n :
              /\ BaseAlong(ret.value[i], call.dim) = (i - 1) * s
              /\ LenAlong(ret.value[i], call.dim) = IF i < n THEN s ELSE L - s * (n - 1)
              /\ \A j \in 1..Len(call.self.shape) :
                    j # CanonDim(Len(call.self.shape), call.dim) + 1 =>
                       /\ ret.value[i].shape[j] = call.self.shape[j]
                       /\ ret.value[i].base[j] = 0
        /\ LenAlong(ret.value[n], call.dim) \in 1..s
        /\ SumSeq(ChunkLengths(ret.value, call.dim)) = L

\* C1 witness: split of a length-7 dim by 3 has returned chunks [3, 3, 1].
C1_Witness ==
    /\ call.op = "split" /\ ret # NoRet
    /\ call.self.shape = <<7>> /\ call.split_size = 3
    /\ ret.status = "ok"
    /\ ChunkLengths(ret.value, call.dim) = <<3, 3, 1>>

\* C2: whenever split_with_sizes returns a result, the lengths along dim of
\* the returned views sum to the length of self along dim.
C2_SplitWithSizesSumsToDim ==
    (call.op = "split_with_sizes" /\ ret # NoRet /\ ret.status = "ok") =>
        SumSeq(ChunkLengths(ret.value, call.dim)) = LenAlong(call.self, call.dim)

\* ------------------------------------------------------------------------
\* meta_index_Tensor: the shape inference of advanced indexing.
\*
\* An index is None or a tensor descriptor: a dtype, a shape and, for a
\* mask (a tensor of truth values), the number nnz of its nonzero elements,
\* which is what index.nonzero() depends on.

None == [dtype |-> "None", shape |-> <<>>, nnz |-> 0]

IsNone(x) == x.dtype = "None"

IndexTensor(dtype, shape, nnz) == [dtype |-> dtype, shape |-> shape, nnz |-> nnz]

\* index.dtype in [torch.long, torch.int8, torch.bool]
AcceptedIndexDtypes == {"long", "int8", "bool"}

\* index.dtype in [torch.int8, torch.bool]
MaskIndexDtypes == {"int8", "bool"}

\* checkIndexTensorTypes and expandTensors: the loop over enumerate(indices).
\* A mask of ndim dims is replaced by ndim coordinate lists
\* nonzero.select(1, j), each a long tensor of shape (nnz,).
RECURSIVE expandTensors(_, _, _, _)
expandTensors(self_shape, indices, i, result) ==
    IF i > Len(indices) THEN Ok(result)
    ELSE LET index == indices[i]
         IN  IF IsNone(index)
             THEN expandTensors(self_shape, indices, i + 1, Append(result, index))
             ELSE IF index.dtype \notin AcceptedIndexDtypes
             THEN Raise("tensors used as indices must be long, byte or bool tensors")
             ELSE IF index.dtype \in MaskIndexDtypes
             THEN LET k == Len(result)
                      nd == Len(index.shape)
                  IN  IF ~(k + nd <= Len(self_shape))
                      THEN Raise("IndexError: too many indices")
                      ELSE IF \E j \in 1..nd : index.shape[j] # self_shape[k + j]
                      THEN Raise("IndexError: mask shape mismatch")
                      ELSE expandTensors(self_shape, indices, i + 1,
                               result \o [j \in 1..nd |->
                                             IndexTensor("long", <<index.nnz>>, 0)])
             ELSE expandTensors(self_shape, indices, i + 1, Append(result, index))

Max(a, b) == IF a >= b THEN a ELSE b

\* Dim i (1-based, of n) of a shape aligned to the right in n dims; the
\* missing leading dims count as 1.
AlignedDim(shape, n, i) ==
    IF i > n - Len(shape) THEN shape[i - (n - Len(shape))] ELSE 1

Broadcastable(a, b) ==
    LET n == Max(Len(a), Len(b))
    IN  \A i \in 1..n :
           \/ AlignedDim(a, n, i) = AlignedDim(b, n, i)
           \/ AlignedDim(a, n, i) = 1
           \/ AlignedDim(b, n, i) = 1

BroadcastTwo(a, b) ==
    LET n == Max(Len(a), Len(b))
    IN  [i \in 1..n |->
           IF AlignedDim(a, n, i) = 1 THEN AlignedDim(b, n, i) ELSE AlignedDim(a, n, i)]

\* The common shape of the non-null entries of indices[i..], given the
\* common shape `acc` of those before; "error" when they do not broadcast.
RECURSIVE CommonShape(_, _, _)
CommonShape(indices, i, acc) ==
    IF i > Len(indices) THEN Ok(acc)
    ELSE IF IsNone(indices[i]) THEN CommonShape(indices, i + 1, acc)
    ELSE IF ~Broadcastable(acc, indices[i].shape)
    THEN Raise("RuntimeError: shapes cannot be broadcast")
    ELSE CommonShape(indices, i + 1, BroadcastTwo(acc, indices[i].shape))

\* refs._maybe_broadcast(*indices): every non-null index expanded to the
\* common shape, the null ones kept.
maybe_broadcast(indices) ==
    LET c == CommonShape(indices, 1, <<>>)
    IN  IF c.status = "error" THEN c
        ELSE Ok([i \in 1..Len(indices) |->
                   IF IsNone(indices[i]) THEN indices[i]
                   ELSE [indices[i] EXCEPT !.shape = c.value]])

\* while len(indices) < self.ndim: indices.append(None)
PadWithNone(indices, ndim) ==
    [i \in 1..Max(Len(indices), ndim) |-> IF i <= Len(indices) THEN indices[i] ELSE None]

\* A mutant: the scan never reports a non-contiguous subspace.
hasContiguousSubspace_always(indices, i, state) == TRUE

\* A mutant: a list without a non-null entry is not taken as contiguous.
RECURSIVE hasContiguousSubspace_needs_index(_, _, _)
hasContiguousSubspace_needs_index(indices, i, state) ==
    IF i > Len(indices) THEN state # 0
    ELSE IF state = 0
    THEN hasContiguousSubspace_needs_index(indices, i + 1, IF ~IsNone(indices[i]) THEN 1 ELSE 0)
    ELSE IF state = 1
    THEN hasContiguousSubspace_needs_index(indices, i + 1, IF IsNone(indices[i]) THEN 2 ELSE 1)
    ELSE IF ~IsNone(indices[i]) THEN FALSE
    ELSE hasContiguousSubspace_needs_index(indices, i + 1, 2)

\* hasContiguousSubspace: the three-state scan.  It breaks (FALSE) at a
\* non-null index met in state 2; the for loop's else clause gives TRUE.
RECURSIVE hasContiguousSubspace(_, _, _)
hasContiguousSubspace(indices, i, state) ==
    IF i > Len(indices) THEN TRUE
    ELSE IF state = 0
    THEN hasContiguousSubspace(indices, i + 1, IF ~IsNone(indices[i]) THEN 1 ELSE 0)
    ELSE IF state = 1
    THEN hasContiguousSubspace(indices, i + 1, IF IsNone(indices[i]) THEN 2 ELSE 1)
    ELSE IF ~IsNone(indices[i]) THEN FALSE
    ELSE hasContiguousSubspace(indices, i + 1, 2)

\* The positions i..Len(indices) (1-based) whose entry is null (wantNone)
\* or non-null, in increasing order.
RECURSIVE PositionsWhere(_, _, _)
PositionsWhere(indices, i, wantNone) ==
    IF i > Len(indices) THEN <<>>
    ELSE IF IsNone(indices[i]) = wantNone
    THEN <<i>> \o PositionsWhere(indices, i + 1, wantNone)
    ELSE PositionsWhere(indices, i + 1, wantNone)

\* transposeToFront: dims = the non-null positions, then the null ones.
transposeDims(indices) ==
    PositionsWhere(indices, 1, FALSE) \o PositionsWhere(indices, 1, TRUE)

permute(shape, dims) == [i \in 1..Len(dims) |-> shape[dims[i]]]

\* A mutant: the dims after the indexed ones are put before them.
RECURSIVE advancedIndexShape_swapped(_, _, _, _, _, _)
advancedIndexShape_swapped(self_shape, indices, dim, before_shape, replacement_shape, after_shape) ==
    IF dim > Len(indices) THEN after_shape \o replacement_shape \o before_shape
    ELSE IF IsNone(indices[dim])
    THEN IF replacement_shape # <<>>
         THEN advancedIndexShape_swapped(self_shape, indices, dim + 1, before_shape,
                  replacement_shape, Append(after_shape, self_shape[dim]))
         ELSE advancedIndexShape_swapped(self_shape, indices, dim + 1,
                  Append(before_shape, self_shape[dim]), replacement_shape, after_shape)
    ELSE advancedIndexShape_swapped(self_shape, indices, dim + 1, before_shape,
             indices[dim].shape, after_shape)

\* AdvancedIndex: the loop over enumerate(indices) and the returned shape
\* before_shape + replacement_shape + after_shape.  `if replacement_shape:`
\* holds for a non-empty list.
RECURSIVE advancedIndexShape(_, _, _, _, _, _)
advancedIndexShape(self_shape, indices, dim, before_shape, replacement_shape, after_shape) ==
    IF dim > Len(indices) THEN before_shape \o replacement_shape \o after_shape
    ELSE IF IsNone(indices[dim])
    THEN IF replacement_shape # <<>>
         THEN advancedIndexShape(self_shape, indices, dim + 1, before_shape,
                  replacement_shape, Append(after_shape, self_shape[dim]))
         ELSE advancedIndexShape(self_shape, indices, dim + 1,
                  Append(before_shape, self_shape[dim]), replacement_shape, after_shape)
    ELSE advancedIndexShape(self_shape, indices, dim + 1, before_shape,
             indices[dim].shape, after_shape)

\* The indices as the scan sees them: expanded, broadcast and padded.
\* A failure of a check ends the rule.
preparedIndices(self_shape, indices) ==
    IF Len(indices) = 0 THEN Raise("at least one index must be provided")
    ELSE LET e == expandTensors(self_shape, indices, 1, <<>>)
         IN  IF e.status = "error" THEN e
             ELSE IF ~(Len(e.value) <= Len(self_shape))
             THEN Raise("too many indices for tensor")
             ELSE LET b == maybe_broadcast(e.value)
                  IN  IF b.status = "error" THEN b
                      ELSE Ok(PadWithNone(b.value, Len(self_shape)))

meta_index_Tensor(self_shape, indices) ==
    LET p == preparedIndices(self_shape, indices)
    IN  IF p.status = "error" THEN p
        ELSE IF hasContiguousSubspace(p.value, 1, 0)
        THEN Ok(advancedIndexShape(self_shape, p.value, 1, <<>>, <<>>, <<>>))
        ELSE LET dims == transposeDims(p.value)
             IN  Ok(advancedIndexShape(permute(self_shape, dims),
                                       permute(p.value, dims), 1, <<>>, <<>>, <<>>))


\* ------------------------------------------------------------------------
\* meta_index_Tensor as a state machine.

\* self has 1..MaxSelfRank dims and at most MaxSelfRank indices are given
MaxSelfRank == 4
\* the length of the first dim of self; dim i (0-based) has length
\* FirstSelfDim + i, so that a permutation of the dims shows in the shape
FirstSelfDim == 4

SelfShapes == {[i \in 1..r |-> FirstSelfDim + i - 1] : r \in 1..MaxSelfRank}

\* The index tensors tried: long indices of several shapes (two of which
\* do not broadcast together), masks that fit some dims of self, and
\* tensors of dtypes that are no index dtypes.
IndexChoices ==
    {None}
    \cup {IndexTensor("long", sh, 0) : sh \in {<<>>, <<1>>, <<3>>, <<2, 3>>}}
    \cup {IndexTensor("bool", sh, 3) :
             sh \in {<<FirstSelfDim>>, <<FirstSelfDim + 1, FirstSelfDim + 2>>}}
    \cup {IndexTensor("int8", <<FirstSelfDim>>, 2),
          IndexTensor("uint8", <<FirstSelfDim>>, 2),
          IndexTensor("int32", <<3>>, 0)}

\* The pending calls: self and a list of up to ndim + 1 indices (more
\* indices than that fail like ndim + 1 of them).
InitIndex ==
    /\ \E sh \in SelfShapes :
          \E n \in 0..(IF Len(sh) < MaxSelfRank THEN Len(sh) + 1 ELSE MaxSelfRank) :
             \E ix \in [1..n -> IndexChoices] :
                call = [op |-> "index.Tensor", self_shape |-> sh, indices |-> ix]
    /\ ret = NoRet

DoMetaIndexTensor ==
    /\ call.op = "index.Tensor"
    /\ ret = NoRet
    /\ ret' = meta_index_Tensor(call.self_shape, call.indices)
    /\ UNCHANGED call

NextIndex == DoMetaIndexTensor

SpecIndex == InitIndex /\ [][NextIndex]_vars

\* What the claims about indexing speak of, stated on the index list the
\* rule scans (masks expanded, nulls added up to self.ndim).
NonNullPositions(ix) == {i \in 1..Len(ix) : ~IsNone(ix[i])}

FirstOf(P) == CHOOSE i \in P : \A j \in P : i <= j

LastOf(P) == CHOOSE i \in P : \A j \in P : j <= i

\* No null entry lies between two non-null ones.
Adjacent(P) == \A i \in FirstOf(P)..LastOf(P) : i \in P

\* The dims of shape at the positions outside P, in their original order.
RECURSIVE DimsOutside(_, _, _)
DimsOutside(shape, P, i) ==
    IF i > Len(shape) THEN <<>>
    ELSE IF i \in P THEN DimsOutside(shape, P, i + 1)
    ELSE <<shape[i]>> \o DimsOutside(shape, P, i + 1)

\* The shape the claims C3 and C4 give for self_shape indexed by the scanned
\* list ix, whose non-null entries all have the common broadcast shape.
ClaimedIndexShape(self_shape, ix, adjacent) ==
    LET P == NonNullPositions(ix)
        bshape == ix[FirstOf(P)].shape
    IN  IF adjacent
        THEN SubSeq(self_shape, 1, FirstOf(P) - 1) \o bshape
             \o SubSeq(self_shape, LastOf(P) + 1, Len(self_shape))
        ELSE bshape \o DimsOutside(self_shape, P, 1)

\* The rule has returned a shape for a call with a non-null index whose
\* non-null positions are adjacent (or not).
IndexReturned(adjacent) ==
    /\ call.op = "index.Tensor" /\ ret # NoRet /\ ret.status = "ok"
    /\ LET P == NonNullPositions(preparedIndices(call.self_shape, call.indices).value)
       IN  P # {} /\ Adjacent(P) = adjacent

\* C3: when the non-null index positions are adjacent, the output shape is
\* the dims of self before the first indexed position, then the common
\* broadcast shape of the index tensors, then the dims of self after the
\* last indexed position.
C3_AdjacentIndexShape ==
    IndexReturned(TRUE) =>
        ret.value = ClaimedIndexShape(call.self_shape,
                        preparedIndices(call.self_shape, call.indices).value, TRUE)

\* C3 witness: self of shape (4,5,6) indexed by one long index of length 3
\* at position 0 has returned the shape (3,5,6).
C3_Witness ==
    /\ IndexReturned(TRUE)
    /\ call.self_shape = <<4, 5, 6>>
    /\ call.indices = <<IndexTensor("long", <<3>>, 0)>>
    /\ ret.value = <<3, 5, 6>>

\* C4: when a null index lies between two non-null ones, the output shape
\* is the broadcast index shape first, then the un-indexed dims of self in
\* their original relative order.
C4_NonAdjacentIndexShape ==
    IndexReturned(FALSE) =>
        ret.value = ClaimedIndexShape(call.self_shape,
                        preparedIndices(call.self_shape, call.indices).value, FALSE)

\* C4 witness: self of shape (4,5,6,7) indexed at positions 1 and 3 (a null
\* between them) by indices that broadcast to (2,3) has returned (2,3,4,6).
C4_Witness ==
    /\ IndexReturned(FALSE)
    /\ call.self_shape = <<4, 5, 6, 7>>
    /\ call.indices = <<None, IndexTensor("long", <<2, 3>>, 0),
                        None, IndexTensor("long", <<3>>, 0)>>
    /\ ret.value = <<2, 3, 4, 6>>

\* ------------------------------------------------------------------------
\* native_layer_norm_backward, on tensor descriptors: an optional tensor
\* is absent (Python's None) or present with a shape.

Absent == [present |-> FALSE, shape |-> <<>>]

Present(shape) == [present |-> TRUE, shape |-> shape]

\* prod(x): r = 1; for i in x: r *= i
RECURSIVE prod(_)
prod(x) == IF Len(x) = 0 THEN 1 ELSE Head(x) * prod(Tail(x))

\* The shape of an elementwise operation (a * b, a - b) on two tensors.
ElementwiseShape(a, b) == BroadcastTwo(a, b)

\* The dims (0-based) torch.sum reduces: all of them when the list is empty.
ReducedDims(shape, dims) ==
    IF Len(dims) = 0 THEN 0..(Len(shape) - 1) ELSE {dims[i] : i \in 1..Len(dims)}

\* The kept dims of shape from position i (1-based) on.
RECURSIVE KeptDims(_, _, _)
KeptDims(shape, reduced, i) ==
    IF i > Len(shape) THEN <<>>
    ELSE IF (i - 1) \in reduced THEN KeptDims(shape, reduced, i + 1)
    ELSE <<shape[i]>> \o KeptDims(shape, reduced, i + 1)

\* The shape of torch.sum(x, dims, keepdim).
SumShape(shape, dims, keepdim) ==
    IF keepdim
    THEN [i \in 1..Len(shape) |->
             IF (i - 1) \in ReducedDims(shape, dims) THEN 1 ELSE shape[i]]
    ELSE KeptDims(shape, ReducedDims(shape, dims), 1)

\* range(lo, hi) as a list
Range(lo, hi) == [i \in 1..(IF hi > lo THEN hi - lo ELSE 0) |-> lo + i - 1]

\* A mutant: the sum over the outer dims is taken also when there are none
\* (torch.sum over an empty list of dims reduces every dim).
outerSum_unguarded(shape, outer_dim_indices) ==
    SumShape(shape, outer_dim_indices, FALSE)

\* if len(outer_dim_indices) > 0: torch.sum(t, outer_dim_indices, False)
\* else: t
outerSum(shape, outer_dim_indices) ==
    IF Len(outer_dim_indices) > 0
    THEN SumShape(shape, outer_dim_indices, FALSE)
    ELSE shape

\* The result for an input with a zero-sized dim (M <= 0 or N <= 0): three
\* new_zeros tensors, whatever output_mask, weight and bias are.
layerNormBackwardEmpty(input_shape, axis) ==
    <<Present(input_shape),
      Present(SubSeq(input_shape, axis + 1, Len(input_shape))),
      Present(SubSeq(input_shape, axis + 1, Len(input_shape)))>>

native_layer_norm_backward(grad_out, input, normalized_shape, mean, rstd, weight, bias, output_mask) ==
    LET input_shape == input.shape
        input_ndim == Len(input.shape)
        axis == input_ndim - Len(normalized_shape)
        inner_dims == SubSeq(input_shape, axis + 1, input_ndim)
        outer_dims == SubSeq(input_shape, 1, axis)
        inner_dim_indices == Range(axis, input_ndim)
        outer_dim_indices == Range(0, axis)
        N == prod(inner_dims)
        M == prod(outer_dims)
        x_hat == ElementwiseShape(ElementwiseShape(input_shape, mean.shape), rstd.shape)
        grad_x_hat == IF weight.present
                      THEN ElementwiseShape(grad_out.shape, weight.shape)
                      ELSE grad_out.shape
        a == grad_x_hat
        b == SumShape(grad_x_hat, inner_dim_indices, TRUE)
        c1 == ElementwiseShape(grad_x_hat, x_hat)
        c2 == SumShape(c1, inner_dim_indices, TRUE)
        c3 == ElementwiseShape(x_hat, c2)
        inner == ElementwiseShape(ElementwiseShape(a, b), c3)
        d_input == IF output_mask[1]
                   THEN Present(ElementwiseShape(rstd.shape, inner))
                   ELSE Absent
        d_weight == IF output_mask[2] /\ weight.present
                    THEN Present(outerSum(ElementwiseShape(grad_out.shape, x_hat),
                                          outer_dim_indices))
                    ELSE Absent
        d_bias == IF output_mask[3] /\ bias.present
                  THEN Present(outerSum(grad_out.shape, outer_dim_indices))
                  ELSE Absent
    IN  IF M <= 0 \/ N <= 0
        THEN Ok(layerNormBackwardEmpty(input_shape, axis))
        ELSE Ok(<<d_input, d_weight, d_bias>>)

\* input has 1..MaxLnRank dims
MaxLnRank == 3
\* each of length 0..MaxLnDim
MaxLnDim == 2

\* The calls the operator's contract allows: normalized_shape is the last k
\* dims of input (k >= 1), grad_out has input's shape, mean and rstd have
\* the outer dims followed by k ones, weight and bias (when given) have
\* normalized_shape.
LayerNormCallsOn(sh) ==
    {[op |-> "native_layer_norm_backward",
      grad_out |-> Present(sh),
      input |-> Present(sh),
      normalized_shape |-> SubSeq(sh, Len(sh) - k + 1, Len(sh)),
      mean |-> Present([i \in 1..Len(sh) |-> IF i <= Len(sh) - k THEN sh[i] ELSE 1]),
      rstd |-> Present([i \in 1..Len(sh) |-> IF i <= Len(sh) - k THEN sh[i] ELSE 1]),
      weight |-> IF w THEN Present(SubSeq(sh, Len(sh) - k + 1, Len(sh))) ELSE Absent,
      bias |-> IF b THEN Present(SubSeq(sh, Len(sh) - k + 1, Len(sh))) ELSE Absent,
      output_mask |-> m] :
        k \in 1..Len(sh), w \in BOOLEAN, b \in BOOLEAN, m \in [1..3 -> BOOLEAN]}

InitLayerNorm ==
    /\ \E r \in 1..MaxLnRank :
          \E sh \in [1..r -> 0..MaxLnDim] : call \in LayerNormCallsOn(sh)
    /\ ret = NoRet

DoNativeLayerNormBackward ==
    /\ call.op = "native_layer_norm_backward"
    /\ ret = NoRet
    /\ ret' = native_layer_norm_backward(call.grad_out, call.input, call.normalized_shape,
                                         call.mean, call.rstd, call.weight, call.bias,
                                         call.output_mask)
    /\ UNCHANGED call

NextLayerNorm == DoNativeLayerNormBackward

SpecLayerNorm == InitLayerNorm /\ [][NextLayerNorm]_vars

\* The trailing len(normalized_shape) dims of the input.
TrailingDims == SubSeq(call.input.shape,
                       Len(call.input.shape) - Len(call.normalized_shape) + 1,
                       Len(call.input.shape))

LayerNormReturned ==
    call.op = "native_layer_norm_backward" /\ ret # NoRet /\ ret.status = "ok"

\* C5: for every call (inputs with a zero-sized dim included) the weight
\* gradient is absent whenever output_mask[1] is false or weight is absent,
\* the bias gradient is absent whenever output_mask[2] is false or bias is
\* absent, and the input gradient is absent whenever output_mask[0] is false.
C5_LayerNormAbsentGradients ==
    LayerNormReturned =>
        /\ (~call.output_mask[1]) => ~ret.value[1].present
        /\ (~call.output_mask[2] \/ ~call.weight.present) => ~ret.value[2].present
        /\ (~call.output_mask[3] \/ ~call.bias.present) => ~ret.value[3].present

\* C6: a present input gradient has the input's shape, and a present weight
\* or bias gradient has the trailing len(normalized_shape) dims of the
\* input, also when the input has no outer dims.
C6_LayerNormGradientShapes ==
    LayerNormReturned =>
        /\ ret.value[1].present => ret.value[1].shape = call.input.shape
        /\ ret.value[2].present => ret.value[2].shape = TrailingDims
        /\ ret.value[3].present => ret.value[3].shape = TrailingDims

\* C6 witness: an input of shape (2,2) with no outer dims and no zero-sized
\* dim has got all three gradients, the weight gradient of shape (2,2).
C6_Witness ==
    /\ LayerNormReturned
    /\ call.input.shape = <<2, 2>> /\ call.normalized_shape = <<2, 2>>
    /\ call.weight.present /\ call.bias.present
    /\ \A i \in 1..3 : call.output_mask[i] /\ ret.value[i].present
    /\ ret.value[2].shape = <<2, 2>>

\* ------------------------------------------------------------------------
\* Tensor values.  The rules compute in floating point; the model computes
\* in exact fractions [num, den] in lowest terms with den > 0, and keeps
\* the one non-number the rules can produce from such values: nan = 0/0.

RECURSIVE GCD(_, _)
GCD(a, b) == IF b = 0 THEN a ELSE GCD(b, a % b)

Abs(x) == IF x < 0 THEN 0 - x ELSE x

NaN == [num |-> 0, den |-> 0]

IsNaN(x) == x.den = 0

\* n/d in lowest terms; d = 0 gives nan
Frac(n, d) ==
    IF d = 0 THEN NaN
    ELSE LET g == GCD(Abs(n), Abs(d))
             sg == IF d < 0 THEN 0 - 1 ELSE 1
         IN  [num |-> sg * (n \div g), den |-> sg * (d \div g)]

Whole(n) == [num |-> n, den |-> 1]

FAdd(x, y) ==
    IF IsNaN(x) \/ IsNaN(y) THEN NaN
    ELSE Frac(x.num * y.den + y.num * x.den, x.den * y.den)

FSub(x, y) ==
    IF IsNaN(x) \/ IsNaN(y) THEN NaN
    ELSE Frac(x.num * y.den - y.num * x.den, x.den * y.den)

FMul(x, y) ==
    IF IsNaN(x) \/ IsNaN(y) THEN NaN ELSE Frac(x.num * y.num, x.den * y.den)

FDiv(x, y) ==
    IF IsNaN(x) \/ IsNaN(y) THEN NaN ELSE Frac(x.num * y.den, x.den * y.num)

FLess(x, y) == ~IsNaN(x) /\ ~IsNaN(y) /\ x.num * y.den < y.num * x.den

\* ------------------------------------------------------------------------
\* embedding_dense_backward.  grad_output is given by its last dim (width)
\* and its rows, the (numel x width) matrix grad_output.reshape(numel,
\* width); indices is given flattened (indices_rank1).

RowAdd(a, b) == [j \in 1..Len(a) |-> FAdd(a[j], b[j])]

\* buffer.index_put([indices], values, accumulate=True): values[i] is added
\* to buffer[indices[i]], one position after the other, so that repeated
\* indices add up.
RECURSIVE index_put_accumulate(_, _, _, _)
index_put_accumulate(buffer, indices, values, i) ==
    IF i > Len(indices) THEN buffer
    ELSE index_put_accumulate(
             [buffer EXCEPT ![indices[i] + 1] = RowAdd(@, values[i])],
             indices, values, i + 1)

new_zeros(rows, width) == [r \in 1..rows |-> [j \in 1..width |-> Whole(0)]]

new_ones(rows, width) == [r \in 1..rows |-> [j \in 1..width |-> Whole(1)]]

\* counts = zeros.index_put([indices_rank1], ones, accumulate=True);
\* grad = grad / counts[indices_rank1].unsqueeze(1)
scaledByFreq(grad, indices_rank1, num_weights) ==
    LET counts == index_put_accumulate(new_zeros(num_weights, 1), indices_rank1,
                                       new_ones(Len(indices_rank1), 1), 1)
        grad_weights_scale == [i \in 1..Len(indices_rank1) |-> counts[indices_rank1[i] + 1][1]]
    IN  [i \in 1..Len(grad) |->
            [j \in 1..Len(grad[i]) |-> FDiv(grad[i][j], grad_weights_scale[i])]]

\* A mutant: the rows at padding_idx are not masked out.
skipPadding_off(grad, indices_rank1, padding_idx) == grad

\* torch.where(skip_padding, grad, zero_grad) with
\* skip_padding = (indices_rank1 != padding_idx).unsqueeze(1).expand_as(grad)
skipPadding(grad, indices_rank1, padding_idx) ==
    [i \in 1..Len(grad) |->
        [j \in 1..Len(grad[i]) |->
            IF indices_rank1[i] # padding_idx THEN grad[i][j] ELSE Whole(0)]]

embedding_dense_backward(grad_output, indices, num_weights, padding_idx, scale_grad_by_freq) ==
    LET grad_weight == new_zeros(num_weights, grad_output.width)
        grad == IF scale_grad_by_freq
                THEN scaledByFreq(grad_output.rows, indices, num_weights)
                ELSE grad_output.rows
    IN  Ok(index_put_accumulate(grad_weight, indices,
                                skipPadding(grad, indices, padding_idx), 1))

\* indices holds 0..MaxNumel entries
MaxNumel == 4
\* the weight matrix has 1..MaxWeights rows
MaxWeights == 3
\* and 1..MaxWidth columns
MaxWidth == 2

RECURSIVE Pow2(_)
Pow2(n) == IF n = 0 THEN 1 ELSE 2 * Pow2(n - 1)

\* The incoming gradient: row i (1-based) is sign * 2^(i-1) * (1, 2, ...),
\* so that a sum of rows tells which rows were added.
GradOutput(numel, width, sign) ==
    [width |-> width,
     rows |-> [i \in 1..numel |-> [j \in 1..width |-> Whole(sign * Pow2(i - 1) * j)]]]

\* The pending calls; padding_idx = -1 names no row.
InitEmbedding ==
    /\ \E numel \in 0..MaxNumel, num_weights \in 1..MaxWeights, width \in 1..MaxWidth :
          \E ix \in [1..numel -> 0..(num_weights - 1)], pad \in (0 - 1)..(num_weights - 1),
             sign \in {0 - 1, 1}, sc \in BOOLEAN :
             call = [op |-> "embedding_dense_backward",
                     grad_output |-> GradOutput(numel, width, sign),
                     indices |-> ix, num_weights |-> num_weights,
                     padding_idx |-> pad, scale_grad_by_freq |-> sc]
    /\ ret = NoRet

DoEmbeddingDenseBackward ==
    /\ call.op = "embedding_dense_backward"
    /\ ret = NoRet
    /\ ret' = embedding_dense_backward(call.grad_output, call.indices, call.num_weights,
                                       call.padding_idx, call.scale_grad_by_freq)
    /\ UNCHANGED call

NextEmbedding == DoEmbeddingDenseBackward

SpecEmbedding == InitEmbedding /\ [][NextEmbedding]_vars

\* The sum of f over the finite set S of positions.
RECURSIVE SumOver(_, _)
SumOver(S, f) ==
    IF S = {} THEN 0
    ELSE LET x == CHOOSE x \in S : TRUE IN f[x] + SumOver(S \ {x}, f)

\* C7: with scale_grad_by_freq false the result is a (num_weights x width)
\* buffer whose row padding_idx is zero and whose every other row r is the
\* sum of the gradient rows at the positions whose index is r.
C7_EmbeddingBackwardRows ==
    (call.op = "embedding_dense_backward" /\ ret # NoRet /\ ~call.scale_grad_by_freq) =>
        /\ ret.status = "ok"
        /\ Len(ret.value) = call.num_weights
        /\ \A r \in 0..(call.num_weights - 1) :
              /\ Len(ret.value[r + 1]) = call.grad_output.width
              /\ \A j \in 1..call.grad_output.width :
                    ret.value[r + 1][j] =
                       IF r = call.padding_idx THEN Whole(0)
                       ELSE Whole(SumOver({i \in 1..Len(call.indices) : call.indices[i] = r},
                                        [i \in 1..Len(call.indices) |->
                                            call.grad_output.rows[i][j].num]))

\* C7 witness: padding_idx = 2 and indices [0,2,1,2] have given row 0 =
\* grad row 0, row 1 = grad row 2 and row 2 = 0.
C7_Witness ==
    /\ call.op = "embedding_dense_backward" /\ ret # NoRet /\ ~call.scale_grad_by_freq
    /\ call.indices = <<0, 2, 1, 2>> /\ call.padding_idx = 2 /\ call.num_weights = 3
    /\ ret.value[1] = call.grad_output.rows[1]
    /\ ret.value[2] = call.grad_output.rows[3]
    /\ \A j \in 1..call.grad_output.width : ret.value[3][j] = Whole(0)

\* ------------------------------------------------------------------------
\* The loss rules.  A tensor is a shape and its elements in row-major
\* order; the result of a full reduction is a 0-dim tensor.

Tensor(shape, data) == [shape |-> shape, data |-> data]

Scalar(x) == Tensor(<<>>, <<x>>)

numel(t) == Len(t.data)

\* class Reduction(Enum): NONE = 0, MEAN = 1, SUM = 2
ReductionNONE == 0
ReductionMEAN == 1
ReductionSUM == 2

RECURSIVE FSum(_)
FSum(data) == IF Len(data) = 0 THEN Whole(0) ELSE FAdd(Head(data), FSum(Tail(data)))

\* torch.sum(loss)
torch_sum(loss) == Scalar(FSum(loss.data))

\* torch.mean(loss): the sum over the element count; nan for no elements
torch_mean(loss) == Scalar(FDiv(FSum(loss.data), Whole(numel(loss))))

\* A mutant: MEAN divides by one less than the element count.
apply_loss_reduction_unbiased(loss, reduction) ==
    IF reduction = ReductionMEAN
    THEN Scalar(FDiv(FSum(loss.data), Whole(numel(loss) - 1)))
    ELSE IF reduction = ReductionSUM THEN torch_sum(loss)
    ELSE loss

apply_loss_reduction(loss, reduction) ==
    IF reduction = ReductionMEAN THEN torch_mean(loss)
    ELSE IF reduction = ReductionSUM THEN torch_sum(loss)
    ELSE loss

\* loss = (self - target) ** 2
mse_elem(x, t) == FMul(FSub(x, t), FSub(x, t))

mse_loss(self, target, reduction) ==
    LET loss == Tensor(self.shape,
                       [i \in 1..Len(self.data) |-> mse_elem(self.data[i], target.data[i])])
    IN  apply_loss_reduction(loss, reduction)

FAbs(x) == IF IsNaN(x) THEN NaN ELSE Frac(Abs(x.num), x.den)

\* z = (self - target).abs();
\* loss = where(z < delta, 0.5 * z * z, delta * (z - 0.5 * delta))
huber_elem(x, t, delta) ==
    LET z == FAbs(FSub(x, t))
    IN  IF FLess(z, Whole(delta))
        THEN FMul(FMul(Frac(1, 2), z), z)
        ELSE FMul(Whole(delta), FSub(z, FMul(Frac(1, 2), Whole(delta))))

huber_loss(self, target, reduction, delta) ==
    IF ~(delta > 0) THEN Raise("AssertionError")
    ELSE LET loss == Tensor(self.shape,
                            [i \in 1..Len(self.data) |->
                                huber_elem(self.data[i], target.data[i], delta)])
         IN  Ok(apply_loss_reduction(loss, reduction))

\* torch.maximum(torch.log(x), -100) at the arguments where it is a
\* fraction: log(1) = 0, and log(0) = -inf is raised to -100.
LogFloor100(x) == IF x = Whole(1) THEN Whole(0) ELSE Whole(0 - 100)

\* loss = (target - 1) * max(log(1 - self), -100) - target * max(log(self), -100)
bce_elem(x, t) ==
    FSub(FMul(FSub(t, Whole(1)), LogFloor100(FSub(Whole(1), x))),
         FMul(t, LogFloor100(x)))

\* weight is an optional tensor: [present |-> FALSE] or a present tensor
binary_cross_entropy(self, target, weight, reduction) ==
    LET loss == Tensor(self.shape,
                       [i \in 1..Len(self.data) |-> bce_elem(self.data[i], target.data[i])])
        weighted == IF weight.present
                    THEN Tensor(loss.shape,
                                [i \in 1..Len(loss.data) |->
                                    FMul(loss.data[i], weight.tensor.data[i])])
                    ELSE loss
    IN  apply_loss_reduction(weighted, reduction)

\* a loss rule gets tensors of 0..MaxLossNumel elements
MaxLossNumel == 3
\* reduction codes 0..MaxReductionCode are tried; those above
\* ReductionSUM name no reduction mode
MaxReductionCode == 3
\* huber_loss is tried with delta in 0..MaxDelta
MaxDelta == 2

\* The shapes tried for n elements.
LossShapes(n) == {<<n>>, <<1, n>>} \cup (IF n = 1 THEN {<<>>} ELSE {})

SelfValues == {Whole(0 - 1), Whole(0), Whole(2)}

TargetValues == {Whole(0), Whole(1)}

\* binary_cross_entropy takes probabilities; 0 and 1 are those whose
\* logarithm (raised to -100) is a fraction
ProbabilityValues == {Whole(0), Whole(1)}

InitLoss ==
    /\ \E n \in 0..MaxLossNumel, red \in 0..MaxReductionCode :
          \E sh \in LossShapes(n), t \in [1..n -> TargetValues] :
             \/ \E x \in [1..n -> SelfValues] :
                   call = [op |-> "mse_loss", self |-> Tensor(sh, x),
                           target |-> Tensor(sh, t), reduction |-> red]
             \/ \E x \in [1..n -> SelfValues], delta \in 0..MaxDelta :
                   call = [op |-> "huber_loss", self |-> Tensor(sh, x),
                           target |-> Tensor(sh, t), reduction |-> red, delta |-> delta]
             \/ \E x \in [1..n -> ProbabilityValues], w \in BOOLEAN :
                   call = [op |-> "binary_cross_entropy", self |-> Tensor(sh, x),
                           target |-> Tensor(sh, t), reduction |-> red,
                           weight |-> IF w
                                      THEN [present |-> TRUE,
                                            tensor |-> Tensor(sh, [i \in 1..n |-> Whole(i + 1)])]
                                      ELSE [present |-> FALSE]]
    /\ ret = NoRet

DoMseLoss ==
    /\ call.op = "mse_loss"
    /\ ret = NoRet
    /\ ret' = Ok(mse_loss(call.self, call.target, call.reduction))
    /\ UNCHANGED call

DoHuberLoss ==
    /\ call.op = "huber_loss"
    /\ ret = NoRet
    /\ ret' = huber_loss(call.self, call.target, call.reduction, call.delta)
    /\ UNCHANGED call

DoBinaryCrossEntropy ==
    /\ call.op = "binary_cross_entropy"
    /\ ret = NoRet
    /\ ret' = Ok(binary_cross_entropy(call.self, call.target, call.weight, call.reduction))
    /\ UNCHANGED call

NextLoss == DoMseLoss \/ DoHuberLoss \/ DoBinaryCrossEntropy

SpecLoss == InitLoss /\ [][NextLoss]_vars

\* What the rule of the pending or finished call returns for the same
\* inputs under the reduction code red.
LossRuleWith(red) ==
    IF call.op = "mse_loss" THEN Ok(mse_loss(call.self, call.target, red))
    ELSE IF call.op = "huber_loss"
    THEN huber_loss(call.self, call.target, red, call.delta)
    ELSE Ok(binary_cross_entropy(call.self, call.target, call.weight, red))

LossOps == {"mse_loss", "huber_loss", "binary_cross_entropy"}

LossReturned == call.op \in LossOps /\ ret # NoRet /\ ret.status = "ok"

\* The statements of C8 about one finished call, given the elementwise loss
\* (the NONE result) and the SUM result for the same inputs.
NoneKeepsShape ==
    call.reduction = ReductionNONE =>
        /\ ret.value.shape = call.self.shape
        /\ numel(ret.value) = numel(call.self)

SumIsTotal ==
    call.reduction = ReductionSUM =>
        ret.value = Scalar(FSum(LossRuleWith(ReductionNONE).value.data))

MeanTimesCountIsSum ==
    call.reduction = ReductionMEAN =>
        /\ ret.value.shape = <<>>
        /\ FMul(ret.value.data[1], Whole(numel(call.self)))
              = LossRuleWith(ReductionSUM).value.data[1]

\* C8 as claimed: NONE returns the elementwise loss with its shape, SUM
\* returns the total of its elements, and the MEAN result times the element
\* count equals the SUM result, for every input.
C8_LossReductionsAnyInput ==
    LossReturned => (NoneKeepsShape /\ SumIsTotal /\ MeanTimesCountIsSum)

\* C8 as amended: the same, the MEAN statement for a loss of at least one
\* element (the mean of no elements is nan, their sum is 0).
C8_LossReductions ==
    LossReturned =>
        /\ NoneKeepsShape
        /\ SumIsTotal
        /\ numel(call.self) >= 1 => MeanTimesCountIsSum

\* C8 witness: a MEAN call on three elements has returned a nonzero mean
\* that differs from the sum.
C8_Witness ==
    /\ LossReturned /\ call.reduction = ReductionMEAN
    /\ numel(call.self) = 3
    /\ ret.value.data[1] # Whole(0)
    /\ ret.value # LossRuleWith(ReductionSUM).value

\* C9: a loss rule called with a reduction code outside {0, 1, 2} ends in
\* a validation failure and returns no tensor.
C9_InvalidReductionFails ==
    (call.op \in LossOps /\ ret # NoRet
       /\ call.reduction \notin {ReductionNONE, ReductionMEAN, ReductionSUM}) =>
        ret.status = "error"

\* ------------------------------------------------------------------------
\* gelu_backward.  Its two formulas go through tanh, erf and exp, whose
\* values are no fractions: an element of the result is kept as the formula
\* that produced it together with its arguments.

\* grad * (left_derivative + right_derivative), the tanh approximation
GeluTanhFormula(g, x) == [formula |-> "tanh", grad |-> g, self |-> x]

\* grad * (cdf + self * pdf), the exact formula through erf
GeluErfFormula(g, x) == [formula |-> "erf", grad |-> g, self |-> x]

gelu_backward(grad, self, approximate) ==
    IF approximate = "tanh"
    THEN Ok(Tensor(self.shape,
                   [i \in 1..Len(self.data) |-> GeluTanhFormula(grad.data[i], self.data[i])]))
    ELSE Ok(Tensor(self.shape,
                   [i \in 1..Len(self.data) |-> GeluErfFormula(grad.data[i], self.data[i])]))

\* gelu_backward gets tensors of 1..MaxGeluNumel elements
MaxGeluNumel == 2

\* The strings tried for approximate: the two modes and three strings that
\* name no mode.
ApproximateStrings == {"none", "tanh", "", "Tanh", "erf"}

GeluValues == {Whole(0 - 2), Whole(0 - 1), Whole(0), Whole(1), Whole(2)}

InitGelu ==
    /\ \E n \in 1..MaxGeluNumel, a \in ApproximateStrings :
          \E g \in [1..n -> GeluValues], x \in [1..n -> GeluValues] :
             call = [op |-> "gelu_backward", grad |-> Tensor(<<n>>, g),
                     self |-> Tensor(<<n>>, x), approximate |-> a]
    /\ ret = NoRet

DoGeluBackward ==
    /\ call.op = "gelu_backward"
    /\ ret = NoRet
    /\ ret' = gelu_backward(call.grad, call.self, call.approximate)
    /\ UNCHANGED call

NextGelu == DoGeluBackward

SpecGelu == InitGelu /\ [][NextGelu]_vars

\* Every element of the returned gradient was made by formula f.
GeluUsed(f) ==
    /\ ret.status = "ok"
    /\ \A i \in 1..numel(ret.value) : ret.value.data[i].formula = f

\* C10: gelu_backward uses the tanh-approximation formula only for
\* approximate = "tanh" and the erf formula only for approximate = "none";
\* any other string ends in a validation failure and returns no gradient.
C10_GeluApproximateChecked ==
    (call.op = "gelu_backward" /\ ret # NoRet) =>
        IF call.approximate = "tanh" THEN GeluUsed("tanh")
        ELSE IF call.approximate = "none" THEN GeluUsed("erf")
        ELSE ret.status = "error"

\* ------------------------------------------------------------------------
\* The backward rules of the losses.  grad_output is a 0-dim tensor (the
\* gradient of a reduced loss) or has the input's shape; a 0-dim tensor
\* broadcasts against the input.

BroadcastAt(t, i) == IF t.shape = <<>> THEN t.data[1] ELSE t.data[i]

\* norm = c / input.numel() if reduction == MEAN else c, for the Python
\* float c: dividing a float by the int 0 raises ZeroDivisionError.
lossNorm(c, count, reduction) ==
    IF reduction = ReductionMEAN
    THEN IF count = 0 THEN Raise("ZeroDivisionError") ELSE Ok(Frac(c, count))
    ELSE Ok(Whole(c))

\* norm * (input - target) * grad_output
mse_loss_backward(grad_output, input, target, reduction) ==
    LET norm == lossNorm(2, numel(input), reduction)
    IN  IF norm.status = "error" THEN norm
        ELSE Ok(Tensor(input.shape,
                       [i \in 1..numel(input) |->
                           FMul(FMul(norm.value, FSub(input.data[i], target.data[i])),
                                BroadcastAt(grad_output, i))]))

FNeg(x) == FSub(Whole(0), x)

\* where(x < -delta, -norm * grad_output * delta,
\*       where(x > delta, norm * grad_output * delta, norm * x * grad_output))
huber_backward_elem(nrm, x, g, delta) ==
    IF FLess(x, Whole(0 - delta)) THEN FMul(FMul(FNeg(nrm), g), Whole(delta))
    ELSE IF FLess(Whole(delta), x) THEN FMul(FMul(nrm, g), Whole(delta))
    ELSE FMul(FMul(nrm, x), g)

huber_loss_backward(grad_output, self, target, reduction, delta) ==
    LET norm == lossNorm(1, numel(self), reduction)
    IN  IF norm.status = "error" THEN norm
        ELSE Ok(Tensor(self.shape,
                       [i \in 1..numel(self) |->
                           huber_backward_elem(norm.value,
                                               FSub(self.data[i], target.data[i]),
                                               BroadcastAt(grad_output, i), delta)]))

\* An element of binary_cross_entropy_backward: the fraction coef, divided
\* by EPSILON = 1e-12 when per_eps holds (1e-12 is below every positive
\* fraction the model forms, and its inverse exceeds the checker's
\* integers, so it is kept as a factor).
\* grad_output * (self - target) / clamp(self * (1 - self), min=EPSILON)
bce_backward_elem(g, x, t) ==
    LET d == FMul(x, FSub(Whole(1), x))
    IN  IF FLess(Whole(0), d)
        THEN [coef |-> FDiv(FMul(g, FSub(x, t)), d), per_eps |-> FALSE]
        ELSE [coef |-> FMul(g, FSub(x, t)), per_eps |-> TRUE]

ScaleElem(e, f) == [e EXCEPT !.coef = FMul(@, f)]

\* if reduction == MEAN: result = result / self.numel()   (a tensor
\* divided by an int: no element, no division)
meanDivision(result, count, reduction) ==
    IF reduction = ReductionMEAN
    THEN [i \in 1..Len(result) |-> ScaleElem(result[i], Frac(1, count))]
    ELSE result

binary_cross_entropy_backward(grad_output, self, target, weight, reduction) ==
    LET result == [i \in 1..numel(self) |->
                      bce_backward_elem(BroadcastAt(grad_output, i),
                                        self.data[i], target.data[i])]
        weighted == IF weight.present
                    THEN [i \in 1..numel(self) |->
                             ScaleElem(result[i], weight.tensor.data[i])]
                    ELSE result
    IN  Ok(Tensor(self.shape, meanDivision(weighted, numel(self), reduction)))

\* The incoming gradients tried: 0-dim, or one element per input element.
GradOutputs(sh, n) ==
    {Scalar(Whole(1)), Scalar(Whole(0 - 2)), Tensor(sh, [i \in 1..n |-> Whole(i)])}

BackwardProbabilities == {Whole(0), Frac(1, 2), Whole(1)}

InitLossBackward ==
    /\ \E n \in 0..MaxLossNumel, red \in 0..MaxReductionCode :
          \E sh \in LossShapes(n), t \in [1..n -> TargetValues] :
             \E g \in GradOutputs(sh, n) :
                \/ \E x \in [1..n -> SelfValues] :
                      call = [op |-> "mse_loss_backward", grad_output |-> g,
                              self |-> Tensor(sh, x), target |-> Tensor(sh, t),
                              reduction |-> red]
                \/ \E x \in [1..n -> SelfValues], delta \in 0..MaxDelta :
                      call = [op |-> "huber_loss_backward", grad_output |-> g,
                              self |-> Tensor(sh, x), target |-> Tensor(sh, t),
                              reduction |-> red, delta |-> delta]
                \/ \E x \in [1..n -> BackwardProbabilities], w \in BOOLEAN :
                      call = [op |-> "binary_cross_entropy_backward", grad_output |-> g,
                              self |-> Tensor(sh, x), target |-> Tensor(sh, t),
                              reduction |-> red,
                              weight |-> IF w
                                         THEN [present |-> TRUE,
                                               tensor |-> Tensor(sh, [i \in 1..n |-> Whole(i + 1)])]
                                         ELSE [present |-> FALSE]]
    /\ ret = NoRet

DoMseLossBackward ==
    /\ call.op = "mse_loss_backward"
    /\ ret = NoRet
    /\ ret' = mse_loss_backward(call.grad_output, call.self, call.target, call.reduction)
    /\ UNCHANGED call

DoHuberLossBackward ==
    /\ call.op = "huber_loss_backward"
    /\ ret = NoRet
    /\ ret' = huber_loss_backward(call.grad_output, call.self, call.target,
                                  call.reduction, call.delta)
    /\ UNCHANGED call

DoBinaryCrossEntropyBackward ==
    /\ call.op = "binary_cross_entropy_backward"
    /\ ret = NoRet
    /\ ret' = binary_cross_entropy_backward(call.grad_output, call.self, call.target,
                                            call.weight, call.reduction)
    /\ UNCHANGED call

NextLossBackward == DoMseLossBackward \/ DoHuberLossBackward \/ DoBinaryCrossEntropyBackward

SpecLossBackward == InitLossBackward /\ [][NextLossBackward]_vars

LossBackwardOps == {"mse_loss_backward", "huber_loss_backward", "binary_cross_entropy_backward"}

\* What the backward rule of the call returns for the same inputs under the
\* reduction code red.
LossBackwardWith(red) ==
    IF call.op = "mse_loss_backward"
    THEN mse_loss_backward(call.grad_output, call.self, call.target, red)
    ELSE IF call.op = "huber_loss_backward"
    THEN huber_loss_backward(call.grad_output, call.self, call.target, red, call.delta)
    ELSE binary_cross_entropy_backward(call.grad_output, call.self, call.target,
                                       call.weight, red)

\* Element e divided by the count n.
DividedBy(e, n) ==
    IF call.op = "binary_cross_entropy_backward" THEN ScaleElem(e, Frac(1, n))
    ELSE FDiv(e, Whole(n))

\* The result under SUM is the result under NONE, and the result under MEAN
\* is that result with every element divided by the element count.
BackwardReductionsAgree ==
    LET none == LossBackwardWith(ReductionNONE)
    IN  /\ call.reduction = ReductionSUM => ret = none
        /\ call.reduction = ReductionMEAN =>
              /\ ret.status = "ok"
              /\ ret.value.shape = none.value.shape
              /\ \A i \in 1..numel(call.self) :
                    ret.value.data[i] = DividedBy(none.value.data[i], numel(call.self))

\* C11: for the three backward rules on identical inputs, the result under
\* SUM equals the result under NONE and the result under MEAN equals that
\* result divided by the input's element count.
C11_BackwardReductions ==
    (call.op \in LossBackwardOps /\ ret # NoRet) => BackwardReductionsAgree

\* The same restricted to inputs of at least one element (this holds).
BackwardReductionsNonEmpty ==
    (call.op \in LossBackwardOps /\ ret # NoRet /\ numel(call.self) >= 1) =>
        BackwardReductionsAgree

\* ---------------------------------------------------------------------
\* type_casts: the type-promotion wrapper.
\* ---------------------------------------------------------------------

\* Argument structures are trees: a tensor leaf carries its dtype, a
\* non-tensor leaf carries its Python type, a list and a dict carry their
\* items (a dict's keys are the positions of its items).
TensorLeaf(dtype) == [kind |-> "tensor", dtype |-> dtype, items |-> <<>>]

ScalarLeaf(type) == [kind |-> "scalar", dtype |-> type, items |-> <<>>]

ListNode(items) == [kind |-> "list", dtype |-> "", items |-> items]

DictNode(items) == [kind |-> "dict", dtype |-> "", items |-> items]

IsTensor(x) == x.kind = "tensor"

IsLeaf(x) == x.kind \in {"tensor", "scalar"}

TensorDtypes == {"bool", "int64", "float16", "float32", "complex64"}

NumericScalarTypes == {"py_int", "py_float"}

ScalarTypes == NumericScalarTypes \cup {"py_str"}

PromotionKinds == {"DEFAULT", "INT_TO_FLOAT", "COMPLEX_TO_FLOAT"}

\* The leaves of a tree, left to right.
RECURSIVE tree_flatten(_)
RECURSIVE tree_flatten_items(_)
tree_flatten(x) == IF IsLeaf(x) THEN <<x>> ELSE tree_flatten_items(x.items)

tree_flatten_items(items) ==
    IF Len(items) = 0 THEN <<>>
    ELSE tree_flatten(Head(items)) \o tree_flatten_items(Tail(items))

\* Standard promotion: the position of a dtype in the promotion order, and
\* the category of a dtype or of a Python number.
DtypeOrder(d) ==
    CASE d = "bool" -> 0 [] d = "int64" -> 1 [] d = "float16" -> 2
      [] d = "float32" -> 3 [] d = "complex64" -> 4

DtypeCategory(d) ==
    CASE d \in {"bool"} -> 0 [] d \in {"int64", "py_int"} -> 1
      [] d \in {"float16", "float32", "py_float"} -> 2 [] d = "complex64" -> 3

DefaultDtypeOf(category) ==
    CASE category = 0 -> "bool" [] category = 1 -> "int64"
      [] category = 2 -> "float32" [] category = 3 -> "complex64"

promote_types(ds) == CHOOSE d \in ds : \A e \in ds : DtypeOrder(e) <= DtypeOrder(d)

get_computation_dtype(d) == IF d = "float16" THEN "float32" ELSE d

\* utils.elementwise_dtypes over tensors and Python numbers: the tensors
\* promote among themselves, a number of a higher category than every
\* tensor lifts the result to that category's default dtype.
elementwise_dtypes(leaves, type_promotion_kind) ==
    LET tensors == {leaves[i].dtype : i \in {j \in 1..Len(leaves) : IsTensor(leaves[j])}}
        numbers == {leaves[i].dtype : i \in {j \in 1..Len(leaves) : ~IsTensor(leaves[j])}}
        cats    == {DtypeCategory(d) : d \in tensors \cup numbers}
        top     == CHOOSE c \in cats : \A e \in cats : e <= c
        among   == IF tensors = {} THEN DefaultDtypeOf(top) ELSE promote_types(tensors)
        p       == IF DtypeCategory(among) < top THEN DefaultDtypeOf(top) ELSE among
    IN IF tensors \cup numbers = {} THEN Raise("ValueError")
       ELSE IF type_promotion_kind = "INT_TO_FLOAT" /\ DtypeCategory(p) <= 1
            THEN Ok([computation_dtype |-> "float32", result_dtype |-> "float32"])
       ELSE IF type_promotion_kind = "COMPLEX_TO_FLOAT" /\ p = "complex64"
            THEN Ok([computation_dtype |-> "complex64", result_dtype |-> "float32"])
       ELSE Ok([computation_dtype |-> get_computation_dtype(p), result_dtype |-> p])

\* A mutant: the arguments are passed on in their own dtype.
increase_prec_off(x, computation_dtype) == x

increase_prec(x, computation_dtype) ==
    IF IsTensor(x) THEN TensorLeaf(computation_dtype) ELSE x

decrease_prec(x, result_dtype) ==
    IF IsTensor(x) THEN TensorLeaf(result_dtype) ELSE x

RECURSIVE tree_map_increase_prec(_, _)
tree_map_increase_prec(x, d) ==
    IF IsLeaf(x) THEN increase_prec(x, d)
    ELSE [x EXCEPT !.items = [i \in 1..Len(x.items) |-> tree_map_increase_prec(x.items[i], d)]]

RECURSIVE tree_map_decrease_prec(_, _)
tree_map_decrease_prec(x, d) ==
    IF IsLeaf(x) THEN decrease_prec(x, d)
    ELSE [x EXCEPT !.items = [i \in 1..Len(x.items) |-> tree_map_decrease_prec(x.items[i], d)]]

\* The wrapped function: it returns what it was given and one number.
WrappedF(args, kwargs) == ListNode(<<args, kwargs, ScalarLeaf("py_int")>>)

\* inner: the value records what f received and what the caller gets.
type_casts(type_promotion, args, kwargs) ==
    LET flat_args == SelectSeq(tree_flatten(ListNode(<<args, kwargs>>)), IsTensor)
        dtypes    == elementwise_dtypes(flat_args, type_promotion)
    IN IF dtypes.status = "error" THEN dtypes
       ELSE LET f_args   == tree_map_increase_prec(args, dtypes.value.computation_dtype)
                f_kwargs == tree_map_increase_prec(kwargs, dtypes.value.computation_dtype)
                r        == WrappedF(f_args, f_kwargs)
            IN Ok([f_args |-> f_args, f_kwargs |-> f_kwargs,
                   r |-> tree_map_decrease_prec(r, dtypes.value.result_dtype)])

MaxLeaves == 3

ArgumentLayouts == {"positional", "keyword", "nested", "mixed"}

\* The leaves ls placed as positional arguments, as keyword arguments, in a
\* list inside a list, or the first positional and the rest in a keyword
\* list.
LaidOut(layout, ls) ==
    CASE layout = "positional" -> <<ListNode(ls), DictNode(<<>>)>>
      [] layout = "keyword" -> <<ListNode(<<>>), DictNode(ls)>>
      [] layout = "nested" ->
           IF Len(ls) = 0 THEN <<ListNode(<<ListNode(<<>>)>>), DictNode(<<>>)>>
           ELSE <<ListNode(<<ListNode(<<Head(ls), ListNode(Tail(ls))>>)>>), DictNode(<<>>)>>
      [] layout = "mixed" ->
           IF Len(ls) = 0 THEN <<ListNode(<<>>), DictNode(<<ListNode(<<>>)>>)>>
           ELSE <<ListNode(<<Head(ls)>>), DictNode(<<ListNode(Tail(ls))>>)>>

InitTypeCasts ==
    /\ ret = NoRet
    /\ \E n \in 0..MaxLeaves, layout \in ArgumentLayouts, kind \in PromotionKinds :
         \E ls \in [1..n -> {TensorLeaf(d) : d \in TensorDtypes} \cup {ScalarLeaf(t) : t \in ScalarTypes}] :
            call = [op |-> "type_casts", type_promotion |-> kind,
                    args |-> LaidOut(layout, ls)[1], kwargs |-> LaidOut(layout, ls)[2]]

DoTypeCasts ==
    /\ call.op = "type_casts"
    /\ ret = NoRet
    /\ ret' = type_casts(call.type_promotion, call.args, call.kwargs)
    /\ UNCHANGED call

NextTypeCasts == DoTypeCasts

SpecTypeCasts == InitTypeCasts /\ [][NextTypeCasts]_vars

TypeCastsReturned == call.op = "type_casts" /\ ret # NoRet /\ ret.status = "ok"

\* got is orig with every tensor in dtype d and everything else as it was.
RECURSIVE SameButTensors(_, _, _)
SameButTensors(orig, got, d) ==
    /\ got.kind = orig.kind
    /\ Len(got.items) = Len(orig.items)
    /\ IF orig.kind = "tensor" THEN got.dtype = d ELSE got.dtype = orig.dtype
    /\ \A i \in 1..Len(orig.items) : SameButTensors(orig.items[i], got.items[i], d)

ArgumentLeaves == tree_flatten(ListNode(<<call.args, call.kwargs>>))

DerivedFromTensors == elementwise_dtypes(SelectSeq(ArgumentLeaves, IsTensor), call.type_promotion).value

IsNumberOrTensor(x) == IsTensor(x) \/ x.dtype \in NumericScalarTypes

DerivedFromTensorsAndNumbers == elementwise_dtypes(SelectSeq(ArgumentLeaves, IsNumberOrTensor), call.type_promotion).value

\* C12: the function wrapped by type_casts receives its positional and
\* keyword arguments in the same structure with every tensor, at any depth,
\* in the derived computation dtype and every non-tensor unchanged; what
\* the caller gets is the function's result with every tensor in the
\* derived result dtype and every non-tensor unchanged.
C12_TypeCastsCasts ==
    TypeCastsReturned =>
        /\ SameButTensors(call.args, ret.value.f_args, DerivedFromTensors.computation_dtype)
        /\ SameButTensors(call.kwargs, ret.value.f_kwargs, DerivedFromTensors.computation_dtype)
        /\ SameButTensors(WrappedF(ret.value.f_args, ret.value.f_kwargs), ret.value.r,
                          DerivedFromTensors.result_dtype)

\* A half-precision tensor as positional argument, a complex tensor and a
\* number inside a keyword list, complex-to-real promotion: the computation
\* dtype and the result dtype differ from each other and from the inputs.
C12_Witness ==
    /\ TypeCastsReturned
    /\ call.type_promotion = "COMPLEX_TO_FLOAT"
    /\ call.args = ListNode(<<TensorLeaf("float16")>>)
    /\ call.kwargs = DictNode(<<ListNode(<<TensorLeaf("complex64"), ScalarLeaf("py_float")>>)>>)
    /\ ret.value.f_args = ListNode(<<TensorLeaf("complex64")>>)
    /\ ret.value.r.items[2] = DictNode(<<ListNode(<<TensorLeaf("float32"), ScalarLeaf("py_float")>>)>>)

\* C13: the computation dtype and the result dtype of the wrapper are
\* derived from the tensor arguments together with the non-tensor numeric
\* scalar arguments, and the scalars themselves are passed on uncast.
C13_ScalarsTakePart ==
    TypeCastsReturned =>
        /\ SameButTensors(call.args, ret.value.f_args, DerivedFromTensorsAndNumbers.computation_dtype)
        /\ SameButTensors(call.kwargs, ret.value.f_kwargs, DerivedFromTensorsAndNumbers.computation_dtype)
        /\ SameButTensors(WrappedF(ret.value.f_args, ret.value.f_kwargs), ret.value.r,
                          DerivedFromTensorsAndNumbers.result_dtype)

\* ---------------------------------------------------------------------
\* native_batch_norm.  The input has shape (N, C) or (N, C, L); a
\* per-channel tensor has shape (C).  A tensor carries its dtype; an
\* element of the output or of an inverse standard deviation is
\* scale * rsqrt(rsqrt_of) + shift, kept as its three exact parts.
\* ---------------------------------------------------------------------
BnTensor(shape, data, dtype) == [shape |-> shape, data |-> data, dtype |-> dtype]

NoTensor == [shape |-> <<>>, data |-> <<>>, dtype |-> "None"]

to_dtype(t, dtype) == [t EXCEPT !.dtype = dtype]

Rsqrt(x) == [scale |-> Whole(1), rsqrt_of |-> x, shift |-> Whole(0)]

\* The channel of the i-th element (row-major) of an input of C channels
\* and L positions per channel.
ChannelOf(i, C, L) == (((i - 1) \div L) % C) + 1

RECURSIVE ChannelValuesFrom(_, _, _, _, _)
ChannelValuesFrom(data, c, C, L, k) ==
    IF k > Len(data) THEN <<>>
    ELSE (IF ChannelOf(k, C, L) = c THEN <<data[k]>> ELSE <<>>)
         \o ChannelValuesFrom(data, c, C, L, k + 1)

\* The elements reduction_dims = [0] + list(range(2, input.dim())) runs
\* over, for channel c.
ChannelValues(input, c) ==
    ChannelValuesFrom(input.data, c, input.shape[2],
                      IF Len(input.shape) > 2 THEN input.shape[3] ELSE 1, 1)

\* torch.mean(input, reduction_dims) at channel c
channelMean(input, c) ==
    LET v == ChannelValues(input, c) IN FDiv(FSum(v), Whole(Len(v)))

\* torch.var(input, reduction_dims, unbiased=False) at channel c
channelVar(input, c) ==
    LET v == ChannelValues(input, c)
        m == channelMean(input, c)
    IN FDiv(FSum([i \in 1..Len(v) |-> FMul(FSub(v[i], m), FSub(v[i], m))]), Whole(Len(v)))

\* normalize(input, reduction_dims, eps), with mean and rstd squeezed to
\* shape (C) by _squeeze_multiple.
normalize(input, eps) ==
    LET C    == input.shape[2]
        L    == IF Len(input.shape) > 2 THEN input.shape[3] ELSE 1
        cd   == get_computation_dtype(input.dtype)
        mean == [c \in 1..C |-> channelMean(input, c)]
        var  == [c \in 1..C |-> channelVar(input, c)]
    IN [out  |-> BnTensor(input.shape,
                    [i \in 1..Len(input.data) |->
                        [scale |-> FSub(input.data[i], mean[ChannelOf(i, C, L)]),
                         rsqrt_of |-> FAdd(var[ChannelOf(i, C, L)], eps),
                         shift |-> Whole(0)]], cd),
        mean |-> BnTensor(<<C>>, mean, cd),
        rstd |-> BnTensor(<<C>>, [c \in 1..C |-> Rsqrt(FAdd(var[c], eps))], cd)]

\* momentum * new + (1 - momentum) * running
movingAverage(momentum, new, running) ==
    [c \in 1..Len(running) |->
        FAdd(FMul(momentum, new[c]), FMul(FSub(Whole(1), momentum), running[c]))]

\* if running_mean is not None: running_mean.copy_(...)
runningMeanAfter(running_mean, save_mean, momentum) ==
    IF running_mean # NoTensor
    THEN [running_mean EXCEPT !.data = movingAverage(momentum, save_mean.data, @)]
    ELSE running_mean

\* if running_var is not None: n = input.numel() / input.shape[1];
\* unbiased_var = var * (n / (n - 1)); running_var.copy_(...).  n and
\* n - 1 are Python floats: n = 1 raises.
runningVarAfter(running_var, input, momentum) ==
    IF running_var # NoTensor
    THEN LET n == Len(input.data) \div input.shape[2]
         IN IF n = 1 THEN Raise("ZeroDivisionError")
            ELSE Ok([running_var EXCEPT !.data =
                       movingAverage(momentum,
                           [c \in 1..input.shape[2] |-> FMul(channelVar(input, c), Frac(n, n - 1))],
                           @)])
    ELSE Ok(running_var)

\* output * weight + bias, weight and bias per channel or 0-dim
scaleAndShift(output, weight, bias, dtype) ==
    LET C == output.shape[2]
        L == IF Len(output.shape) > 2 THEN output.shape[3] ELSE 1
        at(t, i) == IF t.shape = <<>> THEN t.data[1] ELSE t.data[ChannelOf(i, C, L)]
    IN BnTensor(output.shape,
          [i \in 1..Len(output.data) |->
              [scale |-> FMul(output.data[i].scale, at(weight, i)),
               rsqrt_of |-> output.data[i].rsqrt_of,
               shift |-> FAdd(FMul(output.data[i].shift, at(weight, i)), at(bias, i))]],
          dtype)

\* A mutant: evaluation mode converts the caller's buffer in place.
evalBuffer_in_place(buffer, computation_dtype) == to_dtype(buffer, computation_dtype)

\* running_mean = running_mean.to(dtype=computation_dtype) binds the local
\* name to a new tensor: the caller's buffer stays as it is.
evalBuffer(buffer, computation_dtype) == buffer

\* The returned value and the caller's two buffers after the call.
native_batch_norm(input, weight, bias, running_mean, running_var, training, momentum, eps, device) ==
    LET cd == get_computation_dtype(input.dtype)
        C  == input.shape[2]
        L  == IF Len(input.shape) > 2 THEN input.shape[3] ELSE 1
        w  == IF weight = NoTensor THEN BnTensor(<<>>, <<Whole(1)>>, input.dtype) ELSE weight
        b  == IF bias = NoTensor THEN BnTensor(<<>>, <<Whole(0)>>, input.dtype) ELSE bias
        onCpu(t) == IF device = "cpu" THEN to_dtype(t, input.dtype) ELSE t
    IN IF training
       THEN LET nrm == normalize(input, eps)
                rm  == runningMeanAfter(running_mean, nrm.mean, momentum)
                rv  == runningVarAfter(running_var, input, momentum)
            IN IF rv.status = "error"
               THEN [ret |-> rv, running_mean |-> rm, running_var |-> running_var]
               ELSE [ret |-> Ok(<<scaleAndShift(nrm.out, w, b, input.dtype),
                                  onCpu(nrm.mean), onCpu(nrm.rstd)>>),
                     running_mean |-> rm, running_var |-> rv.value]
       ELSE IF running_mean = NoTensor \/ running_var = NoTensor
       THEN [ret |-> Raise("AssertionError"),
             running_mean |-> running_mean, running_var |-> running_var]
       ELSE LET mean   == to_dtype(running_mean, cd)
                invstd == BnTensor(<<C>>, [c \in 1..C |-> Rsqrt(FAdd(running_var.data[c], eps))], cd)
                save_mean == IF device # "cpu" THEN mean ELSE BnTensor(<<0>>, <<>>, input.dtype)
                save_rstd == IF device # "cpu" THEN invstd ELSE BnTensor(<<0>>, <<>>, input.dtype)
                output == BnTensor(input.shape,
                             [i \in 1..Len(input.data) |->
                                 [scale |-> FSub(input.data[i], mean.data[ChannelOf(i, C, L)]),
                                  rsqrt_of |-> invstd.data[ChannelOf(i, C, L)].rsqrt_of,
                                  shift |-> Whole(0)]], cd)
            IN [ret |-> Ok(<<scaleAndShift(output, w, b, input.dtype),
                             onCpu(save_mean), onCpu(save_rstd)>>),
                running_mean |-> evalBuffer(running_mean, cd),
                running_var |-> evalBuffer(running_var, cd)]

MaxBatch == 2

MaxChannels == 2

MaxLength == 2

BnDtypes == {"float16", "float32"}

BnDevices == {"cpu", "cuda"}

BnInputPatterns == {"ramp", "flat"}

BnInputData(n, pattern) ==
    [i \in 1..n |-> IF pattern = "ramp" THEN Whole(i % 4) ELSE Whole(1)]

PerChannel(C, kind, dtype) ==
    BnTensor(<<C>>,
        [c \in 1..C |-> CASE kind = "weight" -> Whole(c + 1)
                          [] kind = "bias" -> Whole(0 - c)
                          [] kind = "running_mean" -> Frac(c, 2)
                          [] kind = "running_var" -> Whole(c)],
        dtype)

Optional(t, present) == IF present THEN t ELSE NoTensor

InitBatchNorm ==
    /\ ret = NoRet
    /\ \E N \in 1..MaxBatch, C \in 1..MaxChannels, L \in 0..MaxLength :
       \E dtype \in BnDtypes, device \in BnDevices, pattern \in BnInputPatterns :
       \E hasW \in BOOLEAN, hasB \in BOOLEAN, hasM \in BOOLEAN, hasV \in BOOLEAN :
       \E training \in BOOLEAN, momentum \in {Frac(1, 10), Whole(1)} :
          call = [op |-> "native_batch_norm",
                  input |-> IF L = 0
                            THEN BnTensor(<<N, C>>, BnInputData(N * C, pattern), dtype)
                            ELSE BnTensor(<<N, C, L>>, BnInputData(N * C * L, pattern), dtype),
                  weight |-> Optional(PerChannel(C, "weight", dtype), hasW),
                  bias |-> Optional(PerChannel(C, "bias", dtype), hasB),
                  running_mean |-> Optional(PerChannel(C, "running_mean", dtype), hasM),
                  running_var |-> Optional(PerChannel(C, "running_var", dtype), hasV),
                  training |-> training, momentum |-> momentum,
                  eps |-> Frac(1, 1000), device |-> device]

\* The caller's buffers are the objects in the call: an in-place update
\* shows in call.running_mean and call.running_var.
DoNativeBatchNorm ==
    /\ call.op = "native_batch_norm"
    /\ ret = NoRet
    /\ LET r == native_batch_norm(call.input, call.weight, call.bias, call.running_mean,
                                  call.running_var, call.training, call.momentum,
                                  call.eps, call.device)
       IN /\ ret' = r.ret
          /\ call' = [call EXCEPT !.running_mean = r.running_mean,
                                  !.running_var = r.running_var]

NextBatchNorm == DoNativeBatchNorm

SpecBatchNorm == InitBatchNorm /\ [][NextBatchNorm]_vars

BatchNormStep == call.op = "native_batch_norm" /\ ret = NoRet /\ ret' # NoRet

\* C14: a call of native_batch_norm in evaluation mode leaves running_mean
\* and running_var as they were; a buffer changes only in training mode and
\* only if it was supplied, and a call in training mode with both buffers
\* absent changes nothing and returns without error.
C14_RunningStatsUpdates ==
    [][BatchNormStep =>
        /\ ~call.training =>
              (call'.running_mean = call.running_mean /\ call'.running_var = call.running_var)
        /\ call'.running_mean # call.running_mean =>
              (call.training /\ call.running_mean # NoTensor)
        /\ call'.running_var # call.running_var =>
              (call.training /\ call.running_var # NoTensor)
        /\ (call.training /\ call.running_mean = NoTensor) => call'.running_mean = NoTensor
        /\ (call.training /\ call.running_var = NoTensor) => call'.running_var = NoTensor
        /\ (call.training /\ call.running_mean = NoTensor /\ call.running_var = NoTensor) =>
              ret'.status = "ok"]_vars

\* A finished call in training mode with running_mean supplied and
\* running_var absent: the running mean has moved, nothing else has.
C14_Witness ==
    /\ call.op = "native_batch_norm" /\ ret # NoRet /\ ret.status = "ok"
    /\ call.training
    /\ call.running_var = NoTensor
    /\ call.running_mean # NoTensor
    /\ call.running_mean # PerChannel(call.input.shape[2], "running_mean", call.input.dtype)

BatchNormFinished == call.op = "native_batch_norm" /\ ret # NoRet

EvalPlaceholders ==
    LET C == call.input.shape[2]
        save_mean == ret.value[2]
        save_rstd == ret.value[3]
    IN IF call.device = "cpu"
       THEN save_mean.shape = <<0>> /\ save_mean.data = <<>>
            /\ save_rstd.shape = <<0>> /\ save_rstd.data = <<>>
       ELSE /\ save_mean.shape = <<C>> /\ save_mean.data = call.running_mean.data
            /\ save_rstd.shape = <<C>>
            /\ \A c \in 1..C :
                  save_rstd.data[c] = Rsqrt(FAdd(call.running_var.data[c], call.eps))

BatchNormReturnsAsClaimed ==
    IF ~call.training /\ (call.running_mean = NoTensor \/ call.running_var = NoTensor)
    THEN ret.status = "error"
    ELSE /\ ret.status = "ok"
         /\ Len(ret.value) = 3
         /\ ret.value[1].shape = call.input.shape
         /\ ~call.training => EvalPlaceholders

\* C15: every call of native_batch_norm returns three tensors, the first of
\* the input's shape; in evaluation mode the second and third are empty
\* tensors of length 0 on CPU and the running mean and
\* 1/sqrt(running_var + eps) on any other device; a call in evaluation mode
\* with running_mean or running_var absent fails.
C15_BatchNormReturns == BatchNormFinished => BatchNormReturnsAsClaimed

\* The same for the calls that do not update the running variance from one
\* value per channel (this holds).
BatchNormReturnsSeveralPerChannel ==
    (BatchNormFinished
       /\ ~(call.training /\ call.running_var # NoTensor
            /\ Len(call.input.data) = call.input.shape[2])) =>
        BatchNormReturnsAsClaimed

\* ---------------------------------------------------------------------
\* nll_loss_backward, nll_loss2d_backward.  A target holds class indices
\* (integers), one per position; the other tensors hold exact fractions.
\* ---------------------------------------------------------------------

\* shape.unsqueeze(dim), dim counted from 0
unsqueezeShape(shape, dim) ==
    [i \in 1..(Len(shape) + 1) |->
        IF i <= dim THEN shape[i] ELSE IF i = dim + 1 THEN 1 ELSE shape[i - 1]]

\* channel_dim = 0 if self.dim() < 2 else 1
channelDim(self) == IF Len(self.shape) < 2 THEN 0 ELSE 1

\* The number of elements of one class of one batch entry: the product of
\* the dims after the channel dim.
SpatialSize(shape) ==
    IF Len(shape) < 2 THEN 1 ELSE prod(SubSeq(shape, 3, Len(shape)))

\* The class (from 0) and the position (from 1, in the target's row-major
\* order) of the i-th element of a tensor of this shape.
ClassOf(shape, i) ==
    IF Len(shape) < 2 THEN i - 1
    ELSE ((i - 1) \div SpatialSize(shape)) % shape[2]

PositionOf(shape, i) ==
    IF Len(shape) < 2 THEN 1
    ELSE ((i - 1) \div (shape[2] * SpatialSize(shape))) * SpatialSize(shape)
         + ((i - 1) % SpatialSize(shape)) + 1

\* A mutant: the scatter writes 1.0.
scatterOneHot_positive(target_p, c) == IF target_p = c THEN Whole(1) ELSE Whole(0)

\* torch.scatter(torch.zeros_like(self), channel_dim, target, -1.0) at
\* class c of a position of target class target_p
scatterOneHot(target_p, c) == IF target_p = c THEN Whole(0 - 1) ELSE Whole(0)

\* grad_output (after the division under MEAN, the weight and the ignore
\* mask) at class c of position p
nllGradOutputAt(grad_output, target, weight, reduction, ignore_index, total_weight, p, c) ==
    LET g0 == IF Len(grad_output.data) = 1 THEN grad_output.data[1] ELSE grad_output.data[p]
        g1 == IF reduction = ReductionMEAN THEN FDiv(g0, total_weight.data[1]) ELSE g0
        g2 == IF weight # NoTensor THEN FMul(g1, weight.data[c + 1]) ELSE g1
    IN IF ignore_index >= 0
       THEN FMul(g2, IF target.data[p] # ignore_index THEN Whole(1) ELSE Whole(0))
       ELSE g2

\* The shape of grad_input * grad_output; not ok when the factors do not
\* broadcast.
nllResultShape(grad_output, self, target, weight, ignore_index) ==
    LET cdim == channelDim(self)
        go == IF Len(self.shape) > Len(grad_output.shape) /\ Len(grad_output.shape) > 0
              THEN unsqueezeShape(grad_output.shape, cdim) ELSE grad_output.shape
        ws == IF weight # NoTensor
              THEN [i \in 1..Len(self.shape) |-> IF i = cdim + 1 THEN weight.shape[1] ELSE 1]
              ELSE <<>>
        ms == IF ignore_index >= 0 THEN unsqueezeShape(target.shape, cdim) ELSE <<>>
    IN IF ~Broadcastable(go, ws) THEN [ok |-> FALSE, shape |-> <<>>]
       ELSE IF ~Broadcastable(BroadcastTwo(go, ws), ms) THEN [ok |-> FALSE, shape |-> <<>>]
       ELSE IF ~Broadcastable(self.shape, BroadcastTwo(BroadcastTwo(go, ws), ms))
       THEN [ok |-> FALSE, shape |-> <<>>]
       ELSE [ok |-> TRUE,
             shape |-> BroadcastTwo(self.shape, BroadcastTwo(BroadcastTwo(go, ws), ms))]

\* torch.scatter raises for an index outside 0..size-1 of the scatter dim.
_nll_loss_backward(grad_output, self, target, weight, reduction, ignore_index, total_weight) ==
    LET C == self.shape[channelDim(self) + 1]
        shape == nllResultShape(grad_output, self, target, weight, ignore_index)
    IN IF \E p \in 1..Len(target.data) : target.data[p] \notin 0..(C - 1)
       THEN Raise("RuntimeError")
       ELSE IF ~shape.ok THEN Raise("RuntimeError")
       ELSE Ok(Tensor(shape.shape,
               [i \in 1..Len(self.data) |->
                   FMul(scatterOneHot(target.data[PositionOf(self.shape, i)], ClassOf(self.shape, i)),
                        nllGradOutputAt(grad_output, target, weight, reduction, ignore_index,
                                        total_weight, PositionOf(self.shape, i),
                                        ClassOf(self.shape, i)))]))

nll_loss_backward(grad_output, self, target, weight, reduction, ignore_index, total_weight) ==
    IF ~(Len(self.shape) <= 2) THEN Raise("AssertionError")
    ELSE IF ~(Len(target.shape) <= 1) THEN Raise("AssertionError")
    ELSE IF ~(Len(self.shape) = 1 /\ Len(target.shape) = 0) /\ Len(self.shape) = 0
    THEN Raise("IndexError")
    ELSE IF ~(Len(self.shape) = 1 /\ Len(target.shape) = 0) /\ Len(target.shape) = 0
    THEN Raise("IndexError")
    ELSE IF ~(Len(self.shape) = 1 /\ Len(target.shape) = 0) /\ self.shape[1] # target.shape[1]
    THEN Raise("AssertionError")
    ELSE IF numel(total_weight) # 1 THEN Raise("AssertionError")
    ELSE IF ~(weight = NoTensor \/ numel(weight) = self.shape[Len(self.shape)])
    THEN Raise("AssertionError")
    ELSE IF reduction = ReductionNONE /\ Len(self.shape) = 2
    THEN IF ~(Len(grad_output.shape) = 1 /\ grad_output.shape[1] = self.shape[1])
         THEN Raise("AssertionError")
         ELSE _nll_loss_backward(grad_output, self, target, weight, reduction, ignore_index, total_weight)
    ELSE IF ~(Len(grad_output.shape) <= 1 /\ numel(grad_output) = 1)
    THEN Raise("AssertionError")
    ELSE _nll_loss_backward(grad_output, self, target, weight, reduction, ignore_index, total_weight)

nll_loss2d_backward(grad_output, self, target, weight, reduction, ignore_index, total_weight) ==
    IF Len(self.shape) # 4 THEN Raise("AssertionError")
    ELSE IF Len(target.shape) # 3 THEN Raise("AssertionError")
    ELSE IF ~(self.shape[1] = target.shape[1] /\ self.shape[3] = target.shape[2]
              /\ self.shape[4] = target.shape[3])
    THEN Raise("AssertionError")
    ELSE IF numel(total_weight) # 1 THEN Raise("AssertionError")
    ELSE _nll_loss_backward(grad_output, self, target, weight, reduction, ignore_index, total_weight)

MaxNllBatch == 2

MaxClasses == 2

MaxSpatial == 2

IgnoreIndices == {0 - 100, 0, 1, 255}

TargetPatterns == {"cyclic", "ignored_first", "all_ignored", "mismatched"}

\* The input shapes of the two rules, and the target shape of a position
\* per batch entry (and per pixel).
NllSelfShapes ==
    {<<>>} \cup {<<C>> : C \in 1..MaxClasses}
    \cup {<<N, C>> : N \in 1..MaxNllBatch, C \in 1..MaxClasses}
    \cup {<<N, C, 1>> : N \in 1..MaxNllBatch, C \in 1..MaxClasses}

Nll2dSelfShapes ==
    {<<N, C, H, W>> : N \in 1..MaxNllBatch, C \in 1..MaxClasses,
                      H \in 1..MaxSpatial, W \in 1..MaxSpatial}
    \cup {<<N, C, 1>> : N \in 1..MaxNllBatch, C \in 1..MaxClasses}

TargetShapeFor(shape, pattern) ==
    LET grow == IF pattern = "mismatched" THEN 1 ELSE 0
    IN IF Len(shape) < 2 THEN <<>>
       ELSE <<shape[1] + grow>> \o SubSeq(shape, 3, Len(shape))

NllTarget(shape, pattern, ignore_index) ==
    LET tshape == TargetShapeFor(shape, pattern)
        C == IF Len(shape) = 0 THEN 1 ELSE IF Len(shape) = 1 THEN shape[1] ELSE shape[2]
    IN Tensor(tshape,
          [p \in 1..prod(tshape) |->
              IF pattern = "all_ignored" \/ (pattern = "ignored_first" /\ p = 1)
              THEN ignore_index ELSE (p - 1) % C])

NllGradOutput(kind, tshape) ==
    CASE kind = "scalar" -> Scalar(Whole(3))
      [] kind = "one" -> Tensor(<<1>>, <<Whole(3)>>)
      [] kind = "per_position" -> Tensor(tshape, [p \in 1..prod(tshape) |-> Whole(p + 1)])

NllWeight(kind, shape) ==
    LET C == IF Len(shape) = 0 THEN 1 ELSE IF Len(shape) = 1 THEN shape[1] ELSE shape[2]
    IN CASE kind = "absent" -> NoTensor
         [] kind = "per_class" -> Tensor(<<C>>, [c \in 1..C |-> Whole(c + 1)])
         [] kind = "wrong" -> Tensor(<<C + 1>>, [c \in 1..(C + 1) |-> Whole(c + 1)])

NllTotalWeights == {Scalar(Whole(2)), Tensor(<<2>>, <<Whole(2), Whole(2)>>)}

InitNll ==
    /\ ret = NoRet
    /\ \E op \in {"nll_loss_backward", "nll_loss2d_backward"} :
       \E shape \in (IF op = "nll_loss_backward" THEN NllSelfShapes ELSE Nll2dSelfShapes) :
       \E pattern \in TargetPatterns, ignore_index \in IgnoreIndices :
       \E gkind \in {"scalar", "one", "per_position"} :
       \E wkind \in (IF op = "nll_loss_backward" THEN {"absent", "per_class", "wrong"}
                     ELSE {"absent", "per_class"}) :
       \E reduction \in {ReductionNONE, ReductionMEAN, ReductionSUM} :
       \E total_weight \in NllTotalWeights :
          call = [op |-> op,
                  grad_output |-> NllGradOutput(gkind, TargetShapeFor(shape, "cyclic")),
                  self |-> Tensor(shape, [i \in 1..prod(shape) |-> Whole(i)]),
                  target |-> NllTarget(shape, pattern, ignore_index),
                  weight |-> NllWeight(wkind, shape),
                  reduction |-> reduction, ignore_index |-> ignore_index,
                  total_weight |-> total_weight]

DoNllLossBackward ==
    /\ call.op = "nll_loss_backward"
    /\ ret = NoRet
    /\ ret' = nll_loss_backward(call.grad_output, call.self, call.target, call.weight,
                                call.reduction, call.ignore_index, call.total_weight)
    /\ UNCHANGED call

DoNllLoss2dBackward ==
    /\ call.op = "nll_loss2d_backward"
    /\ ret = NoRet
    /\ ret' = nll_loss2d_backward(call.grad_output, call.self, call.target, call.weight,
                                  call.reduction, call.ignore_index, call.total_weight)
    /\ UNCHANGED call

NextNll == DoNllLossBackward \/ DoNllLoss2dBackward

SpecNll == InitNll /\ [][NextNll]_vars

NllOps == {"nll_loss_backward", "nll_loss2d_backward"}

NllFinished == call.op \in NllOps /\ ret # NoRet

NllReturned == NllFinished /\ ret.status = "ok"

\* The positions whose target is the ignore index.
IgnoredPositions == {p \in 1..Len(call.target.data) : call.target.data[p] = call.ignore_index}

ElementsAt(p) ==
    {i \in 1..Len(call.self.data) : PositionOf(call.self.shape, i) = p}

\* C16: for every ignore_index, a call of nll_loss_backward or
\* nll_loss2d_backward that passes the rule's validation and has a position
\* whose target equals ignore_index returns a gradient, and the gradient is
\* zero at every class of every such position.
C16_IgnoredPositionsAreZero ==
    (NllFinished /\ IgnoredPositions # {}) =>
        \/ ret.status = "error" /\ ret.kind \in {"AssertionError", "IndexError"}
        \/ /\ ret.status = "ok"
           /\ \A p \in IgnoredPositions : \A i \in ElementsAt(p) : ret.value.data[i] = Whole(0)

\* The same for an ignore_index that is a class index (this holds).
IgnoredClassPositionsAreZero ==
    (NllFinished /\ IgnoredPositions # {} /\ Len(call.self.shape) > 0
       /\ call.ignore_index \in 0..(call.self.shape[channelDim(call.self) + 1] - 1)) =>
        \/ ret.status = "error" /\ ret.kind \in {"AssertionError", "IndexError"}
        \/ /\ ret.status = "ok"
           /\ \A p \in IgnoredPositions : \A i \in ElementsAt(p) : ret.value.data[i] = Whole(0)

IncomingAt(p) ==
    IF Len(call.grad_output.data) = 1 THEN call.grad_output.data[1] ELSE call.grad_output.data[p]

WeightOfClass(c) ==
    IF call.weight = NoTensor THEN Whole(1) ELSE call.weight.data[c + 1]

\* The gradient has the input's shape and is zero off the target class.
OneHotAlongChannel ==
    /\ ret.value.shape = call.self.shape
    /\ \A i \in 1..Len(call.self.data) :
          ClassOf(call.self.shape, i) # call.target.data[PositionOf(call.self.shape, i)] =>
              ret.value.data[i] = Whole(0)

\* C17 as claimed: the gradient of the NLL backward rules has the input's
\* shape, is zero at every entry whose class differs from its position's
\* target, and at the target class is -1 times the incoming gradient times
\* the class weight.
C17_TargetEntryAnyCall ==
    NllReturned =>
        /\ OneHotAlongChannel
        /\ \A i \in 1..Len(call.self.data) :
              LET c == ClassOf(call.self.shape, i)
                  p == PositionOf(call.self.shape, i)
              IN c = call.target.data[p] =>
                   ret.value.data[i] = FMul(Whole(0 - 1), FMul(IncomingAt(p), WeightOfClass(c)))

\* C17 as amended: the same, where the incoming gradient is first divided
\* by total_weight under MEAN, and the entry is zero at a position whose
\* target is a non-negative ignore_index.
C17_TargetEntry ==
    NllReturned =>
        /\ OneHotAlongChannel
        /\ \A i \in 1..Len(call.self.data) :
              LET c == ClassOf(call.self.shape, i)
                  p == PositionOf(call.self.shape, i)
                  g == IF call.reduction = ReductionMEAN
                       THEN FDiv(IncomingAt(p), call.total_weight.data[1]) ELSE IncomingAt(p)
              IN c = call.target.data[p] =>
                   ret.value.data[i] =
                      IF call.ignore_index >= 0 /\ call.target.data[p] = call.ignore_index
                      THEN Whole(0)
                      ELSE FMul(Whole(0 - 1), FMul(g, WeightOfClass(c)))

\* C17 witness: nll_loss2d_backward has returned the gradient of a batch of
\* two pixels and two classes under NONE with class weights: -1 times the
\* weighted incoming gradient at a target class 1, zero at the other class.
C17_Witness ==
    /\ NllReturned
    /\ call.op = "nll_loss2d_backward"
    /\ call.reduction = ReductionNONE
    /\ call.self.shape = <<1, 2, 1, 2>>
    /\ call.weight # NoTensor
    /\ call.target.data = <<0, 1>>
    /\ Len(call.grad_output.data) = 2
    /\ ret.value.data = <<Whole(0 - 4), Whole(0), Whole(0), Whole(0 - 9)>>

\* ---------------------------------------------------------------------
\* glu_backward, by shapes: the value is the shape of the gradient and the
\* shapes of the parts it is concatenated from.
\* ---------------------------------------------------------------------

\* torch.cat([a, b], dim) of two shapes that agree outside dim (from 0)
torch_cat(a, b, dim) ==
    IF Len(a) # Len(b) \/ \E i \in 1..Len(a) : i # dim + 1 /\ a[i] # b[i]
    THEN Raise("RuntimeError")
    ELSE Ok([a EXCEPT ![dim + 1] = a[dim + 1] + b[dim + 1]])

\* A mutant: a dim of any size is halved.
halvingDimIsEven_unchecked(nIn) == TRUE

\* assert nIn % 2 == 0
halvingDimIsEven(nIn) == nIn % 2 = 0

glu_backward(grad_output, self, dim) ==
    IF ~(Len(self.shape) > 0) THEN Raise("AssertionError")
    ELSE LET wrap_dim == CanonDim(Len(self.shape), dim)
             nIn == self.shape[wrap_dim + 1]
             inputSize == nIn \div 2
             firstHalf == narrow(self, wrap_dim, 0, inputSize)
             secondHalf == narrow(self, wrap_dim, inputSize, inputSize)
         IN IF ~halvingDimIsEven(nIn) THEN Raise("AssertionError")
            ELSE IF firstHalf.status = "error" THEN firstHalf
            ELSE IF secondHalf.status = "error" THEN secondHalf
            ELSE IF ~Broadcastable(secondHalf.value.shape, grad_output.shape)
                    \/ ~Broadcastable(BroadcastTwo(secondHalf.value.shape, firstHalf.value.shape),
                                      grad_output.shape)
            THEN Raise("RuntimeError")
            ELSE LET gradInputSecondHalf ==
                         BroadcastTwo(BroadcastTwo(secondHalf.value.shape, firstHalf.value.shape),
                                      grad_output.shape)
                     gradInputFirstHalf == BroadcastTwo(secondHalf.value.shape, grad_output.shape)
                     cat == torch_cat(gradInputFirstHalf, gradInputSecondHalf, wrap_dim)
                 IN IF cat.status = "error" THEN cat
                    ELSE Ok([shape |-> cat.value,
                             parts |-> <<gradInputFirstHalf, gradInputSecondHalf>>])

MaxGluDim == 4

\* grad_output has the shape of glu's output (the input with dim halved),
\* or is 0-dimensional.
InitGlu ==
    /\ ret = NoRet
    /\ \/ \E s \in ShapesOf(MaxGluDim) : \E d \in DimsOf(s), scalar \in BOOLEAN :
            call = [op |-> "glu_backward",
                    grad_output |-> FullTensor(IF scalar THEN <<>>
                        ELSE [s EXCEPT ![CanonDim(Len(s), d) + 1] = @ \div 2]),
                    self |-> FullTensor(s), dim |-> d]
       \/ \E d \in {0 - 1, 0} :
            call = [op |-> "glu_backward", grad_output |-> FullTensor(<<>>),
                    self |-> FullTensor(<<>>), dim |-> d]

DoGluBackward ==
    /\ call.op = "glu_backward"
    /\ ret = NoRet
    /\ ret' = glu_backward(call.grad_output, call.self, call.dim)
    /\ UNCHANGED call

NextGlu == DoGluBackward

SpecGlu == InitGlu /\ [][NextGlu]_vars

GluFinished == call.op = "glu_backward" /\ ret # NoRet

GluDimSize == call.self.shape[CanonDim(Len(call.self.shape), call.dim) + 1]

\* C18: glu_backward fails its validation when the input is 0-dimensional
\* or the size of the canonicalized dim is odd; otherwise it returns a
\* gradient of the input's shape, the concatenation along dim of two parts
\* that each have half the size of the input along dim and the input's size
\* along every other dim.
C18_GluBackwardShape ==
    GluFinished =>
        IF Len(call.self.shape) = 0 \/ GluDimSize % 2 = 1
        THEN ret.status = "error" /\ ret.kind = "AssertionError"
        ELSE /\ ret.status = "ok"
             /\ ret.value.shape = call.self.shape
             /\ Len(ret.value.parts) = 2
             /\ \A k \in 1..2 :
                   ret.value.parts[k] =
                      [call.self.shape EXCEPT ![CanonDim(Len(call.self.shape), call.dim) + 1] =
                          GluDimSize \div 2]

\* C18 witness: a gradient of shape (3, 4), halved along dim -1.
C18_Witness ==
    /\ GluFinished /\ ret.status = "ok"
    /\ call.self.shape = <<3, 4>> /\ call.dim = 0 - 1
    /\ ret.value.shape = <<3, 4>>
    /\ ret.value.parts = <<(<<3, 2>>), (<<3, 2>>)>>

\* ---------------------------------------------------------------------
\* hardtanh_backward, hardshrink_backward.
\* ---------------------------------------------------------------------

\* x <= y on floats: false when either is nan
FLeq(x, y) == ~IsNaN(x) /\ ~IsNaN(y) /\ x.num * y.den <= y.num * x.den

\* A mutant: the boundary values let the gradient through.
hardtanhIsFlat_strict(x, min_val, max_val) == FLess(x, min_val) \/ FLess(max_val, x)

\* (self <= min_val) | (self >= max_val)
hardtanhIsFlat(x, min_val, max_val) == FLeq(x, min_val) \/ FLeq(max_val, x)

\* (self >= -lambd) & (self <= lambd)
hardshrinkIsFlat(x, lambd) == FLeq(FNeg(lambd), x) /\ FLeq(x, lambd)

hardtanh_backward(grad_output, self, min_val, max_val) ==
    Ok(Tensor(self.shape,
          [i \in 1..Len(self.data) |->
              IF hardtanhIsFlat(self.data[i], min_val, max_val)
              THEN Whole(0) ELSE grad_output.data[i]]))

hardshrink_backward(grad_out, self, lambd) ==
    Ok(Tensor(self.shape,
          [i \in 1..Len(self.data) |->
              IF hardshrinkIsFlat(self.data[i], lambd) THEN Whole(0) ELSE grad_out.data[i]]))

MaxActNumel == 2

ActValues == {Whole(0 - 2), Whole(0 - 1), Whole(0), Frac(1, 2), Whole(1), Whole(2), NaN}

ActGrads == {Whole(0 - 3), Whole(5)}

ActLimits == {Whole(0 - 1), Whole(0), Frac(1, 2), Whole(1)}

InitThreshold ==
    /\ ret = NoRet
    /\ \E n \in 1..MaxActNumel :
       \E g \in [1..n -> ActGrads], x \in [1..n -> ActValues] :
          \/ \E lo \in ActLimits, hi \in ActLimits :
                call = [op |-> "hardtanh_backward", grad_output |-> Tensor(<<n>>, g),
                        self |-> Tensor(<<n>>, x), min_val |-> lo, max_val |-> hi]
          \/ \E lambd \in ActLimits :
                call = [op |-> "hardshrink_backward", grad_out |-> Tensor(<<n>>, g),
                        self |-> Tensor(<<n>>, x), lambd |-> lambd]

DoHardtanhBackward ==
    /\ call.op = "hardtanh_backward"
    /\ ret = NoRet
    /\ ret' = hardtanh_backward(call.grad_output, call.self, call.min_val, call.max_val)
    /\ UNCHANGED call

DoHardshrinkBackward ==
    /\ call.op = "hardshrink_backward"
    /\ ret = NoRet
    /\ ret' = hardshrink_backward(call.grad_out, call.self, call.lambd)
    /\ UNCHANGED call

NextThreshold == DoHardtanhBackward \/ DoHardshrinkBackward

SpecThreshold == InitThreshold /\ [][NextThreshold]_vars

\* x is a number and x <= y, by cross-multiplication.
AtMost(x, y) == x.den # 0 /\ y.den # 0 /\ ~(y.num * x.den < x.num * y.den)

\* C19: hardtanh_backward returns zero at every element with self <= min_val
\* or self >= max_val and the incoming gradient at every other element;
\* hardshrink_backward returns zero at every element with -lambd <= self <=
\* lambd and the incoming gradient at every other element; an element equal
\* to min_val, max_val, -lambd or lambd gets zero.
C19_InclusiveBoundaries ==
    /\ (call.op = "hardtanh_backward" /\ ret # NoRet) =>
          /\ ret.status = "ok"
          /\ ret.value.shape = call.self.shape
          /\ \A i \in 1..Len(call.self.data) :
                ret.value.data[i] =
                   IF AtMost(call.self.data[i], call.min_val) \/ AtMost(call.max_val, call.self.data[i])
                   THEN Whole(0) ELSE call.grad_output.data[i]
    /\ (call.op = "hardshrink_backward" /\ ret # NoRet) =>
          /\ ret.status = "ok"
          /\ ret.value.shape = call.self.shape
          /\ \A i \in 1..Len(call.self.data) :
                ret.value.data[i] =
                   IF AtMost(FSub(Whole(0), call.lambd), call.self.data[i])
                      /\ AtMost(call.self.data[i], call.lambd)
                   THEN Whole(0) ELSE call.grad_out.data[i]

\* C19 witness: hardtanh_backward on an element equal to min_val and an
\* element strictly between the limits has returned zero and the gradient.
C19_Witness ==
    /\ call.op = "hardtanh_backward" /\ ret # NoRet /\ ret.status = "ok"
    /\ call.min_val = Whole(0 - 1) /\ call.max_val = Whole(1)
    /\ call.self.data = <<Whole(0 - 1), Frac(1, 2)>>
    /\ call.grad_output.data = <<Whole(5), Whole(0 - 3)>>
    /\ ret.value.data = <<Whole(0), Whole(0 - 3)>>

\* ---------------------------------------------------------------------
\* prelu_backward, by shapes.  The value holds the shapes of the two
\* returned gradients and of the two intermediate tensors the weight
\* gradient is made from.
\* ---------------------------------------------------------------------

\* for _ in range(2, grad_output.dim()): cur_weight = cur_weight.unsqueeze(-1)
RECURSIVE unsqueezeTrailing(_, _)
unsqueezeTrailing(shape, times) ==
    IF times <= 0 THEN shape ELSE unsqueezeTrailing(Append(shape, 1), times - 1)

\* Tensor.sum_to_size(size): size must expand to the tensor's shape
sum_to_size(shape, size) ==
    IF Len(size) <= Len(shape)
       /\ \A i \in 1..Len(shape) :
             AlignedDim(size, Len(shape), i) \in {1, shape[i]}
    THEN Ok(size)
    ELSE Raise("RuntimeError")

\* A mutant: the summed contribution is returned as it is.
squeezeToRank_off(out, rank) == out

\* while out.dim() > weight.dim(): out = out.squeeze(-1).  The dims beyond
\* the weight's rank are the unsqueezed ones, all of size 1.
RECURSIVE squeezeToRank(_, _)
squeezeToRank(out, rank) ==
    IF Len(out) > rank /\ out[Len(out)] = 1
    THEN squeezeToRank(SubSeq(out, 1, Len(out) - 1), rank)
    ELSE out

prelu_backward(grad_output, self, weight) ==
    LET cur_weight == unsqueezeTrailing(weight.shape, Len(grad_output.shape) - 2)
    IN IF ~Broadcastable(cur_weight, grad_output.shape)
          \/ ~Broadcastable(self.shape, grad_output.shape)
          \/ ~Broadcastable(self.shape, BroadcastTwo(cur_weight, grad_output.shape))
       THEN Raise("RuntimeError")
       ELSE LET input_grad == BroadcastTwo(BroadcastTwo(self.shape, grad_output.shape),
                                           BroadcastTwo(cur_weight, grad_output.shape))
                weight_grad_collector == BroadcastTwo(self.shape, grad_output.shape)
                summed == sum_to_size(weight_grad_collector, cur_weight)
            IN IF summed.status = "error" THEN summed
               ELSE Ok([input_grad |-> input_grad,
                        out |-> squeezeToRank(summed.value, Len(weight.shape)),
                        cur_weight |-> cur_weight,
                        summed |-> summed.value])

MaxPreluRank == 3

MaxPreluDim == 3

\* The weight is 0-dimensional, or 1-D with one element or one per channel
\* (dim 1 of an input of two or more dims).
PreluWeightShapes(shape) ==
    {<<>>, <<1>>} \cup (IF Len(shape) >= 2 THEN {<<shape[2]>>} ELSE {})

InitPrelu ==
    /\ ret = NoRet
    /\ \E r \in 1..MaxPreluRank : \E s \in [1..r -> 1..MaxPreluDim] :
       \E w \in PreluWeightShapes(s) :
          call = [op |-> "prelu_backward", grad_output |-> FullTensor(s),
                  self |-> FullTensor(s), weight |-> FullTensor(w)]

DoPreluBackward ==
    /\ call.op = "prelu_backward"
    /\ ret = NoRet
    /\ ret' = prelu_backward(call.grad_output, call.self, call.weight)
    /\ UNCHANGED call

NextPrelu == DoPreluBackward

SpecPrelu == InitPrelu /\ [][NextPrelu]_vars

PreluFinished == call.op = "prelu_backward" /\ ret # NoRet

\* The two gradients have the shapes of grad_output and of weight, and the
\* contribution was summed to the shape of the unsqueezed weight, which is
\* the weight's shape followed by singleton dims only.
PreluShapes ==
    /\ ret.status = "ok"
    /\ ret.value.input_grad = call.grad_output.shape
    /\ ret.value.out = call.weight.shape
    /\ ret.value.summed = ret.value.cur_weight
    /\ Len(ret.value.cur_weight) >= Len(call.weight.shape)
    /\ \A i \in 1..Len(ret.value.cur_weight) :
          ret.value.cur_weight[i] =
             IF i <= Len(call.weight.shape) THEN call.weight.shape[i] ELSE 1

\* C20 as claimed: for every grad_output of rank >= 1, prelu_backward
\* returns an input gradient of grad_output's shape and a weight gradient
\* of weight's shape, the weight having been unsqueezed with trailing
\* singleton dims to rank grad_output.dim() - 1, the contribution summed to
\* that shape and the trailing singleton dims then squeezed.
C20_WeightRankAnyCall ==
    PreluFinished =>
        /\ PreluShapes
        /\ Len(ret.value.cur_weight) = Len(call.grad_output.shape) - 1

\* C20 as amended: the same, the weight unsqueezed grad_output.dim() - 2
\* times, and not at all for a grad_output of fewer than 3 dims; this is
\* rank grad_output.dim() - 1 for a 1-D weight and a grad_output of two or
\* more dims.
C20_WeightRank ==
    PreluFinished =>
        /\ PreluShapes
        /\ Len(ret.value.cur_weight) =
              Len(call.weight.shape) + Max(0, Len(call.grad_output.shape) - 2)
        /\ (Len(call.weight.shape) = 1 /\ Len(call.grad_output.shape) >= 2) =>
              Len(ret.value.cur_weight) = Len(call.grad_output.shape) - 1

\* C20 witness: a grad_output of shape (2, 3, 2) and a weight of shape (3):
\* summed to (3, 1), returned with shape (3).
C20_Witness ==
    /\ PreluFinished /\ ret.status = "ok"
    /\ call.grad_output.shape = <<2, 3, 2>>
    /\ call.weight.shape = <<3>>
    /\ ret.value.summed = <<3, 1>>
    /\ ret.value.out = <<3>>
    /\ ret.value.input_grad = <<2, 3, 2>>

\* ---------------------------------------------------------------------
\* norm.  The input has one or two dims; an element of the result is the
\* root-th root of an exact value (root = 1: the value itself).  The
\* exponent p is a whole number or plus or minus infinity.
\* ---------------------------------------------------------------------

\* The elements (row-major indices) each element of a reduction over the
\* dims `reduced` is made from, in the order of the result's elements.
ReductionGroups(shape, reduced) ==
    IF Len(shape) = 1 THEN
        IF 0 \in reduced THEN <<[i \in 1..shape[1] |-> i]>>
        ELSE [i \in 1..shape[1] |-> <<i>>]
    ELSE IF 0 \in reduced /\ 1 \in reduced
         THEN <<[i \in 1..(shape[1] * shape[2]) |-> i]>>
    ELSE IF 0 \in reduced
         THEN [j \in 1..shape[2] |-> [i \in 1..shape[1] |-> (i - 1) * shape[2] + j]]
    ELSE IF 1 \in reduced
         THEN [i \in 1..shape[1] |-> [j \in 1..shape[2] |-> (i - 1) * shape[2] + j]]
    ELSE [i \in 1..(shape[1] * shape[2]) |-> <<i>>]

Finite(n) == [inf |-> FALSE, val |-> n]

PlusInfinity == [inf |-> TRUE, val |-> 1]

MinusInfinity == [inf |-> TRUE, val |-> 0 - 1]

Exact(x) == [root |-> 1, of |-> x]

\* A mutant: p = 0 counts every element.
countNonzero_all(values) == Whole(Len(values))

\* (self != 0).sum(...) over one group of elements
countNonzero(values) ==
    Whole(Cardinality({i \in 1..Len(values) : values[i] # Whole(0)}))

\* amax and amin of one group of elements
RECURSIVE amax(_)
amax(values) ==
    IF Len(values) = 1 THEN values[1]
    ELSE LET m == amax(Tail(values))
         IN IF IsNaN(m) \/ IsNaN(Head(values)) THEN NaN
            ELSE IF FLess(m, Head(values)) THEN Head(values) ELSE m

RECURSIVE amin(_)
amin(values) ==
    IF Len(values) = 1 THEN values[1]
    ELSE LET m == amin(Tail(values))
         IN IF IsNaN(m) \/ IsNaN(Head(values)) THEN NaN
            ELSE IF FLess(Head(values), m) THEN Head(values) ELSE m

\* x.pow(ord) for a whole ord >= 1 (ord = 1: x, ord = 2: x.square())
RECURSIVE fast_pow(_, _)
fast_pow(x, ord) == IF ord <= 1 THEN x ELSE FMul(x, fast_pow(x, ord - 1))

\* norm of one group of elements
normOfGroup(values, p, is_float) ==
    LET abs == [i \in 1..Len(values) |-> FAbs(values[i])]
    IN IF ~p.inf /\ p.val = 0 THEN Exact(countNonzero(values))
       ELSE IF p = PlusInfinity THEN Exact(amax(abs))
       ELSE IF p = MinusInfinity THEN Exact(amin(abs))
       ELSE LET x == IF ~(p.val % 2 = 0 /\ is_float) THEN abs ELSE values
            IN [root |-> p.val,
                of |-> FSum([i \in 1..Len(x) |-> fast_pow(x[i], p.val)])]

norm(self, p, dim, keepdim, is_float) ==
    LET groups == ReductionGroups(self.shape, ReducedDims(self.shape, dim))
    IN Ok(Tensor(SumShape(self.shape, dim, keepdim),
                 [g \in 1..Len(groups) |->
                     normOfGroup([k \in 1..Len(groups[g]) |-> self.data[groups[g][k]]],
                                 p, is_float)]))

MaxNormLen == 4

MaxNormRows == 2

NormValues == {Whole(0), Whole(2), Whole(3), Whole(0 - 4)}

NormExponents == {Finite(0), Finite(1), Finite(2), Finite(3), PlusInfinity, MinusInfinity}

InitNorm ==
    /\ ret = NoRet
    /\ \E p \in NormExponents, keepdim \in BOOLEAN, is_float \in BOOLEAN :
          \/ \E n \in 1..MaxNormLen : \E x \in [1..n -> NormValues], dim \in {<<>>, <<0>>} :
                call = [op |-> "norm", self |-> Tensor(<<n>>, x), p |-> p, dim |-> dim,
                        keepdim |-> keepdim, is_float |-> is_float]
          \/ \E r \in 1..MaxNormRows : \E c \in {k \in 1..MaxNormRows : r * k <= MaxNormLen} :
             \E x \in [1..(r * c) -> NormValues], dim \in {<<>>, <<0>>, <<1>>, <<0, 1>>} :
                call = [op |-> "norm", self |-> Tensor(<<r, c>>, x), p |-> p,
                        dim |-> dim, keepdim |-> keepdim, is_float |-> is_float]

DoNorm ==
    /\ call.op = "norm"
    /\ ret = NoRet
    /\ ret' = norm(call.self, call.p, call.dim, call.keepdim, call.is_float)
    /\ UNCHANGED call

NextNorm == DoNorm

SpecNorm == InitNorm /\ [][NextNorm]_vars

NormFinished == call.op = "norm" /\ ret # NoRet

\* The elements of the input that the g-th element of the result covers.
NormGroup(g) ==
    LET groups == ReductionGroups(call.self.shape, ReducedDims(call.self.shape, call.dim))
    IN {groups[g][k] : k \in 1..Len(groups[g])}

AbsOf(i) ==
    LET x == call.self.data[i] IN IF x.num < 0 THEN Frac(0 - x.num, x.den) ELSE x

\* C21: with p = 0 norm returns, for each element of the result, the number
\* of nonzero elements over the reduced dims; with p = +infinity the
\* greatest of their absolute values; with p = -infinity the least of their
\* absolute values; no power or root is taken in these three cases.
C21_NormSpecialExponents ==
    (NormFinished /\ (call.p.inf \/ call.p.val = 0)) =>
        /\ ret.status = "ok"
        /\ \A g \in 1..Len(ret.value.data) :
              LET e == ret.value.data[g]
              IN /\ e.root = 1
                 /\ call.p = Finite(0) =>
                       e.of = Whole(Cardinality({i \in NormGroup(g) : call.self.data[i].num # 0}))
                 /\ call.p = PlusInfinity =>
                       /\ \E i \in NormGroup(g) : AbsOf(i) = e.of
                       /\ \A i \in NormGroup(g) : ~FLess(e.of, AbsOf(i))
                 /\ call.p = MinusInfinity =>
                       /\ \E i \in NormGroup(g) : AbsOf(i) = e.of
                       /\ \A i \in NormGroup(g) : ~FLess(AbsOf(i), e.of)

\* C21 witness: norm of [0, 2, 0, 3] with p = 0 over all dims has returned 2.
C21_Witness ==
    /\ NormFinished /\ ret.status = "ok"
    /\ call.p = Finite(0)
    /\ call.self.data = <<Whole(0), Whole(2), Whole(0), Whole(3)>>
    /\ call.dim = <<>> /\ ~call.keepdim
    /\ ret.value = Tensor(<<>>, <<Exact(Whole(2))>>)

\* ---------------------------------------------------------------------
\* var_correction.  An optional argument is a record: absent, or present
\* with its value.  A complex input carries its imaginary parts beside its
\* real parts.
\* ---------------------------------------------------------------------
Missing == [present |-> FALSE, value |-> 0]

MissingList == [present |-> FALSE, value |-> <<>>]

Given(v) == [present |-> TRUE, value |-> v]

\* A float divided by a Python int: a zero divisor gives nan for 0 and an
\* infinity otherwise.
Infinity(sign) == [num |-> sign, den |-> 0]

divideByCount(x, n) ==
    IF n # 0 \/ IsNaN(x) THEN FDiv(x, Whole(n))
    ELSE IF x.num = 0 THEN NaN
    ELSE Infinity(IF x.num > 0 THEN 1 ELSE 0 - 1)

canonicalize_dims(rank, dims) == [i \in 1..Len(dims) |-> CanonDim(rank, dims[i])]

\* sum over one group of (x - mean) * (x - mean)
sumOfSquaredDeviations(values) ==
    LET mean == FDiv(FSum(values), Whole(Len(values)))
    IN FSum([i \in 1..Len(values) |-> FMul(FSub(values[i], mean), FSub(values[i], mean))])

\* torch.var(x, dims, correction=correction, keepdim=keepdim) of the native
\* library: an absent correction is 1, the divisor is not below 0.
torch_var(data, shape, dims, correction, keepdim) ==
    LET groups == ReductionGroups(shape, ReducedDims(shape, canonicalize_dims(Len(shape), dims)))
        c == IF correction.present THEN correction.value ELSE 1
    IN [g \in 1..Len(groups) |->
           divideByCount(sumOfSquaredDeviations([k \in 1..Len(groups[g]) |-> data[groups[g][k]]]),
                         Max(0, Len(groups[g]) - c))]

\* n: prod(x.shape) for no dims, else the product of x.shape[dim]
RECURSIVE reducedCount(_, _)
reducedCount(shape, dims) ==
    IF Len(dims) = 0 THEN 1
    ELSE shape[CanonDim(Len(shape), Head(dims)) + 1] * reducedCount(shape, Tail(dims))

\* A mutant: the correction is not subtracted.
correctedCount_biased(n, correction) == n

\* if correction: n = n - correction
correctedCount(n, correction) == IF correction # 0 THEN n - correction ELSE n

var_correction(x, dims, correction, keepdim) ==
    LET ds == IF dims.present THEN dims.value ELSE <<>>
        cds == canonicalize_dims(Len(x.shape), ds)
        out_shape == SumShape(x.shape, cds, keepdim)
    IN IF x.is_complex
       THEN LET var_real == torch_var(x.data, x.shape, ds, correction, keepdim)
                var_imag == torch_var(x.imag, x.shape, ds, correction, keepdim)
            IN Ok(Tensor(out_shape,
                         [g \in 1..Len(var_real) |->
                             IF var_real[g].den = 0 THEN var_real[g]
                             ELSE IF var_imag[g].den = 0 THEN var_imag[g]
                             ELSE FAdd(var_real[g], var_imag[g])]))
       ELSE LET c == IF correction.present THEN correction.value ELSE 0
                n == IF Len(ds) = 0 THEN prod(x.shape) ELSE reducedCount(x.shape, ds)
                groups == ReductionGroups(x.shape, ReducedDims(x.shape, cds))
            IN Ok(Tensor(out_shape,
                         [g \in 1..Len(groups) |->
                             divideByCount(
                                 sumOfSquaredDeviations(
                                     [k \in 1..Len(groups[g]) |-> x.data[groups[g][k]]]),
                                 correctedCount(n, c))]))

MaxVarLen == 4

MaxVarRows == 2

MaxCorrection == 2

VarValues == {Whole(0), Whole(1), Whole(3)}

VarCorrections == {Missing} \cup {Given(c) : c \in 0..MaxCorrection}

VarInput(shape, data, is_complex) ==
    [shape |-> shape, data |-> data, is_complex |-> is_complex,
     imag |-> IF is_complex THEN [i \in 1..Len(data) |-> Whole(i)] ELSE <<>>]

InitVar ==
    /\ ret = NoRet
    /\ \E correction \in VarCorrections, keepdim \in BOOLEAN, is_complex \in BOOLEAN :
          \/ \E n \in 1..MaxVarLen : \E x \in [1..n -> VarValues] :
             \E dims \in {MissingList, Given(<<>>), Given(<<0>>), Given(<<0 - 1>>)} :
                call = [op |-> "var_correction", x |-> VarInput(<<n>>, x, is_complex),
                        dims |-> dims, correction |-> correction, keepdim |-> keepdim]
          \/ \E r \in 1..MaxVarRows : \E c \in {k \in 1..MaxVarRows : r * k <= MaxVarLen} :
             \E x \in [1..(r * c) -> VarValues] :
             \E dims \in {MissingList, Given(<<>>), Given(<<0>>), Given(<<1>>), Given(<<0 - 1>>),
                          Given(<<0, 1>>), Given(<<1, 0 - 2>>)} :
                call = [op |-> "var_correction", x |-> VarInput(<<r, c>>, x, is_complex),
                        dims |-> dims, correction |-> correction, keepdim |-> keepdim]

DoVarCorrection ==
    /\ call.op = "var_correction"
    /\ ret = NoRet
    /\ ret' = var_correction(call.x, call.dims, call.correction, call.keepdim)
    /\ UNCHANGED call

NextVar == DoVarCorrection

SpecVar == InitVar /\ [][NextVar]_vars

\* The dims the call reduces over, counted from 0: all of them when dims is
\* empty or absent.
VarReduced ==
    IF ~call.dims.present \/ Len(call.dims.value) = 0
    THEN 0..(Len(call.x.shape) - 1)
    ELSE {IF call.dims.value[i] < 0 THEN call.dims.value[i] + Len(call.x.shape)
          ELSE call.dims.value[i] : i \in 1..Len(call.dims.value)}

\* n: the product of the sizes of the reduced dims (inputs have <= 2 dims).
VarCount ==
    (IF 0 \in VarReduced THEN call.x.shape[1] ELSE 1)
    * (IF 1 \in VarReduced /\ Len(call.x.shape) > 1 THEN call.x.shape[2] ELSE 1)

VarDivisor == VarCount - (IF call.correction.present THEN call.correction.value ELSE 0)

VarSquaredDeviations(g) ==
    LET group == ReductionGroups(call.x.shape, VarReduced)[g]
        total == FSum([k \in 1..Len(group) |-> call.x.data[group[k]]])
    IN FSum([k \in 1..Len(group) |->
               LET d == FSub(FMul(call.x.data[group[k]], Whole(Len(group))), total)
               IN FDiv(FMul(d, d), Whole(Len(group) * Len(group)))])

\* C22: for a real input each element of var_correction's result is the sum
\* of the squared deviations from the mean over the reduced dims, divided by
\* n - correction, with n the product of the sizes of the reduced dims (all
\* dims when dims is empty or absent) and an absent correction counted as 0;
\* a zero divisor gives a non-finite element.
C22_VarDividesByCorrectedCount ==
    (call.op = "var_correction" /\ ret # NoRet /\ ~call.x.is_complex) =>
        /\ ret.status = "ok"
        /\ \A g \in 1..Len(ret.value.data) :
              IF VarDivisor = 0 THEN ret.value.data[g].den = 0
              ELSE FMul(ret.value.data[g], Whole(VarDivisor)) = VarSquaredDeviations(g)

\* C22 witness: the variance of [0, 1, 3, 3] over dim 0 with correction 1 is
\* 27/4 over 3.
C22_Witness ==
    /\ call.op = "var_correction" /\ ret # NoRet /\ ret.status = "ok"
    /\ ~call.x.is_complex
    /\ call.x.data = <<Whole(0), Whole(1), Whole(3), Whole(3)>>
    /\ call.x.shape = <<4>>
    /\ call.correction = Given(1)
    /\ call.dims = Given(<<0>>)
    /\ ret.value.data = <<Frac(9, 4)>>

\* ---------------------------------------------------------------------
\* meta_embedding_bag.  A tensor is described by what the rule reads of it:
\* dtype, sizes, strides, device.  The value is the four returned
\* descriptors, each a dtype and a shape.
\* ---------------------------------------------------------------------
Descriptor(dtype, shape) == [dtype |-> dtype, shape |-> shape]

NoScale == [present |-> FALSE, dtype |-> "None", ndim |-> 0, numel |-> 0, stride0 |-> 0]

Scale(dtype, ndim, count, stride0) ==
    [present |-> TRUE, dtype |-> dtype, ndim |-> ndim, numel |-> count, stride0 |-> stride0]

MODE_SUM == 0

MODE_MEAN == 1

MODE_MAX == 2

\* A mutant: the last offset is counted as a bag.
numBags_with_last(size0, include_last_offset) ==
    IF include_last_offset /\ ~(size0 >= 1) THEN Raise("RuntimeError") ELSE Ok(size0)

\* num_bags = offsets.size(0); if include_last_offset: check(num_bags >= 1);
\* num_bags -= 1
numBags(size0, include_last_offset) ==
    IF include_last_offset
    THEN IF ~(size0 >= 1) THEN Raise("RuntimeError") ELSE Ok(size0 - 1)
    ELSE Ok(size0)

\* The checks on per_sample_weights.
scaleIsValid(per_sample_weights, mode, weight, indices) ==
    /\ mode = MODE_SUM
    /\ per_sample_weights.dtype = weight.dtype
    /\ per_sample_weights.ndim = 1
    /\ per_sample_weights.numel = indices.numel

\* output = weight.new_empty(num_bags, weight.size(1)) is contiguous: its
\* stride(1) is 1.
is_fast_path_index_select(src, output_stride1, padding_idx) ==
    /\ src.dtype \in {"float", "half"}
    /\ src.stride1 = 1
    /\ output_stride1 = 1
    /\ padding_idx < 0

\* A mutant: the stride of the scale is not looked at.
is_fast_path_any_scale(src, scale, output_stride1, padding_idx) ==
    is_fast_path_index_select(src, output_stride1, padding_idx)

is_fast_path(src, scale, output_stride1, padding_idx) ==
    IF scale.present
    THEN is_fast_path_index_select(src, output_stride1, padding_idx) /\ scale.stride0 = 1
    ELSE is_fast_path_index_select(src, output_stride1, padding_idx)

meta_embedding_bag(weight, indices, offsets, mode, per_sample_weights, include_last_offset, padding_idx) ==
    LET nb == numBags(offsets.size0, include_last_offset)
    IN IF indices.dtype \notin {"long", "int"} THEN Raise("RuntimeError")
       ELSE IF offsets.dtype \notin {"long", "int"} THEN Raise("RuntimeError")
       ELSE IF weight.dtype \notin {"float", "half", "double"} THEN Raise("RuntimeError")
       ELSE IF nb.status = "error" THEN nb
       ELSE IF per_sample_weights.present
               /\ ~scaleIsValid(per_sample_weights, mode, weight, indices)
       THEN Raise("RuntimeError")
       ELSE LET num_bags == nb.value
                output == Descriptor(weight.dtype, <<num_bags, weight.size1>>)
            IN IF offsets.device # "cpu"
               THEN Ok(<<output,
                         Descriptor(indices.dtype, <<indices.size0>>),
                         Descriptor(indices.dtype, <<offsets.size0>>),
                         IF mode = MODE_MAX
                         THEN Descriptor(indices.dtype, <<num_bags, weight.size1>>)
                         ELSE Descriptor(indices.dtype, <<0>>)>>)
               ELSE LET fast_path_sum == is_fast_path(weight, per_sample_weights, 1, padding_idx)
                    IN Ok(<<output,
                            IF mode = MODE_MEAN \/ mode = MODE_MAX \/ ~fast_path_sum
                            THEN Descriptor(offsets.dtype, <<indices.size0>>)
                            ELSE Descriptor(offsets.dtype, <<0>>),
                            Descriptor(offsets.dtype, <<num_bags>>),
                            Descriptor(offsets.dtype, <<num_bags>>)>>)

MaxEmbDim == 2

MaxIndices == 2

MaxOffsets == 2

ScaleKinds == {"absent", "good", "strided", "wrong_dtype", "two_dim", "wrong_numel"}

ScaleOf(kind, weight_dtype, count) ==
    CASE kind = "absent" -> NoScale
      [] kind = "good" -> Scale(weight_dtype, 1, count, 1)
      [] kind = "strided" -> Scale(weight_dtype, 1, count, 2)
      [] kind = "wrong_dtype" -> Scale("long", 1, count, 1)
      [] kind = "two_dim" -> Scale(weight_dtype, 2, count, 1)
      [] kind = "wrong_numel" -> Scale(weight_dtype, 1, count + 1, 1)

InitEmbeddingBag ==
    /\ ret = NoRet
    /\ \E wd \in {"float", "half", "double", "long"}, ws \in 1..2, D \in 1..MaxEmbDim :
       \E id \in {"long", "int", "float"}, n \in 0..MaxIndices :
       \E od \in {"long", "float"}, m \in 0..MaxOffsets, device \in {"cpu", "cuda"} :
       \E mode \in {MODE_SUM, MODE_MEAN, MODE_MAX}, sk \in ScaleKinds :
       \E include_last_offset \in BOOLEAN, padding_idx \in {0 - 1, 0} :
          call = [op |-> "meta_embedding_bag",
                  weight |-> [dtype |-> wd, size1 |-> D, stride1 |-> ws],
                  indices |-> [dtype |-> id, size0 |-> n, numel |-> n],
                  offsets |-> [dtype |-> od, size0 |-> m, device |-> device],
                  mode |-> mode, per_sample_weights |-> ScaleOf(sk, wd, n),
                  include_last_offset |-> include_last_offset, padding_idx |-> padding_idx]

DoMetaEmbeddingBag ==
    /\ call.op = "meta_embedding_bag"
    /\ ret = NoRet
    /\ ret' = meta_embedding_bag(call.weight, call.indices, call.offsets, call.mode,
                                 call.per_sample_weights, call.include_last_offset,
                                 call.padding_idx)
    /\ UNCHANGED call

NextEmbeddingBag == DoMetaEmbeddingBag

SpecEmbeddingBag == InitEmbeddingBag /\ [][NextEmbeddingBag]_vars

BagFinished == call.op = "meta_embedding_bag" /\ ret # NoRet

BagReturned == BagFinished /\ ret.status = "ok"

BagCount == call.offsets.size0 - (IF call.include_last_offset THEN 1 ELSE 0)

\* C23: meta_embedding_bag fails when include_last_offset is set and
\* offsets is empty; when it returns, it returns four descriptors, the
\* first of shape (bag count, weight.size(1)), where the bag count is
\* offsets.size(0), less 1 when include_last_offset is set.
C23_BagCount ==
    BagFinished =>
        /\ (call.include_last_offset /\ call.offsets.size0 = 0) => ret.status = "error"
        /\ ret.status = "ok" =>
              /\ Len(ret.value) = 4
              /\ ret.value[1].shape = <<BagCount, call.weight.size1>>

\* C23 witness: two offsets with include_last_offset give an output of one
\* bag.
C23_Witness ==
    /\ BagReturned
    /\ call.include_last_offset /\ call.offsets.size0 = 2
    /\ call.weight.size1 = 2
    /\ ret.value[1].shape = <<1, 2>>

\* The fast-path condition as the rule states it.
BagFastPath ==
    /\ call.weight.dtype \in {"float", "half"}
    /\ call.weight.stride1 = 1
    /\ call.padding_idx < 0
    /\ call.per_sample_weights.present => call.per_sample_weights.stride0 = 1

\* C24: off the CPU offset2bag has length indices.size(0) and max_indices
\* has shape (bag count, weight.size(1)) if mode is MAX and is empty (length
\* 0) if not; on the CPU offset2bag is empty if mode is SUM and the
\* fast-path condition holds and has length indices.size(0) if not, and
\* bag_size and max_indices both have length bag count.
C24_BookkeepingShapes ==
    BagReturned =>
        LET offset2bag == ret.value[2].shape
            bag_size == ret.value[3].shape
            max_indices == ret.value[4].shape
        IN IF call.offsets.device # "cpu"
           THEN /\ offset2bag = <<call.indices.size0>>
                /\ max_indices = IF call.mode = MODE_MAX
                                 THEN <<BagCount, call.weight.size1>> ELSE <<0>>
           ELSE /\ offset2bag = IF call.mode = MODE_SUM /\ BagFastPath
                                THEN <<0>> ELSE <<call.indices.size0>>
                /\ bag_size = <<BagCount>>
                /\ max_indices = <<BagCount>>

\* C24 witness: on the CPU, mode SUM with contiguous per-sample weights on
\* the fast path: offset2bag is empty although there are two indices.
C24_Witness ==
    /\ BagReturned
    /\ call.offsets.device = "cpu" /\ call.mode = MODE_SUM
    /\ call.per_sample_weights.present
    /\ call.indices.size0 = 2 /\ call.offsets.size0 = 2
    /\ ret.value[2].shape = <<0>>
    /\ ret.value[3].shape = <<2>>

\* ---------------------------------------------------------------------
\* meta_index_Tensor: the index dtypes and the scan.
\* ---------------------------------------------------------------------
IndexFinished == call.op = "index.Tensor" /\ ret # NoRet

DtypeFailure == Raise("tensors used as indices must be long, byte or bool tensors")

\* The index dtypes the documentation names: long, byte (uint8) and bool.
DocumentedIndexDtypes == {"long", "uint8", "bool"}

DocumentedMaskDtypes == {"uint8", "bool"}

\* The first non-null index of the call: no check on an index runs before
\* its dtype check.
FirstNonNull(indices) == indices[FirstOf(NonNullPositions(indices))]

\* The number of entries the documented expansion leaves: one per mask
\* dimension for a byte or bool index, one for any other entry.
RECURSIVE DocumentedExpandedLen(_, _)
DocumentedExpandedLen(indices, i) ==
    IF i > Len(indices) THEN 0
    ELSE (IF indices[i].dtype \in DocumentedMaskDtypes THEN Len(indices[i].shape) ELSE 1)
         + DocumentedExpandedLen(indices, i + 1)

\* C25: a non-null index is accepted exactly when its dtype is long, byte
\* (uint8) or bool: a call whose index tensors all have these dtypes does
\* not fail with 'tensors used as indices must be long, byte or bool
\* tensors', a call whose first index tensor has another dtype fails with
\* it, and in a call that returns every byte or bool index has become one
\* coordinate list per mask dimension.
C25_IndexDtypes ==
    IndexFinished =>
        LET P == NonNullPositions(call.indices)
        IN /\ (\A i \in P : call.indices[i].dtype \in DocumentedIndexDtypes)
                 => ret # DtypeFailure
           /\ (P # {} /\ FirstNonNull(call.indices).dtype \notin DocumentedIndexDtypes)
                 => ret = DtypeFailure
           /\ ret.status = "ok" =>
                 Len(expandTensors(call.self_shape, call.indices, 1, <<>>).value)
                     = DocumentedExpandedLen(call.indices, 1)

\* What the rule does with the dtypes: long, int8 and bool are accepted,
\* int8 and bool are expanded as masks, and uint8 is rejected.
IndexDtypesAsCoded ==
    IndexFinished =>
        LET P == NonNullPositions(call.indices)
        IN /\ (\A i \in P : call.indices[i].dtype \in {"long", "int8", "bool"})
                 => ret # DtypeFailure
           /\ (P # {} /\ FirstNonNull(call.indices).dtype \notin {"long", "int8", "bool"})
                 => ret = DtypeFailure

\* The index list the scan reads has been built.
IndexScanned ==
    IndexFinished /\ preparedIndices(call.self_shape, call.indices).status = "ok"

ScannedIndices == preparedIndices(call.self_shape, call.indices).value

\* C26: the scan sets has_contiguous_subspace exactly when, in the index
\* list padded with nulls up to self.ndim, no null entry lies between two
\* non-null entries; a list with one or no non-null entry counts as such.
C26_ContiguousSubspace ==
    IndexScanned =>
        LET P == NonNullPositions(ScannedIndices)
        IN hasContiguousSubspace(ScannedIndices, 1, 0) = (P = {} \/ Adjacent(P))

\* C26 witness: self of rank 3 indexed by (long, None, long): a null lies
\* between two non-null entries and the indexed dims have been moved to the
\* front.
C26_Witness ==
    /\ IndexScanned
    /\ call.self_shape = <<4, 5, 6>>
    /\ call.indices = <<IndexTensor("long", <<3>>, 0), None, IndexTensor("long", <<3>>, 0)>>
    /\ ~hasContiguousSubspace(ScannedIndices, 1, 0)
    /\ ret = Ok(<<3, 5>>)

\* C28: nll_loss_backward ends with the failure of its 'input tensor
\* should be 1D or 2D' assertion for every input whose rank is not 1 or 2,
\* a 0-dimensional input included.
C28_RankValidated ==
    (call.op = "nll_loss_backward" /\ ret # NoRet /\ Len(call.self.shape) \notin {1, 2})
        => ret = Raise("AssertionError")

\* What the rule does: an input of rank 3 fails the assertion, an input of
\* rank 0 passes it (0 <= self.dim() <= 2) and fails at self.shape[0].
RankAsCoded ==
    (call.op = "nll_loss_backward" /\ ret # NoRet) =>
        /\ Len(call.self.shape) > 2 => ret = Raise("AssertionError")
        /\ Len(call.self.shape) = 0 => ret = Raise("IndexError")

\* C29: for a dim of length 0, split with split_size 0 returns the single
\* chunk [self] and split with a split_size >= 1 returns chunks whose
\* lengths sum to 0; split with split_size 0 on a dim of length >= 1
\* fails.
C29_SplitOnEmptyDim ==
    (call.op = "split" /\ ret # NoRet) =>
        LET L == LenAlong(call.self, call.dim)
            s == call.split_size
        IN /\ (L = 0 /\ s = 0) => ret = Ok(<<call.self>>)
           /\ (L = 0 /\ s >= 1) =>
                 /\ ret.status = "ok"
                 /\ SumSeq(ChunkLengths(ret.value, call.dim)) = 0
           /\ (L >= 1 /\ s = 0) => ret.status = "error"

\* What the rule does on a dim of length 0: with a split_size >= 1 chunks
\* is 0 and the assignment to split_sizes[chunks - 1] fails.
SplitOnEmptyDimAsCoded ==
    (call.op = "split" /\ ret # NoRet) =>
        LET L == LenAlong(call.self, call.dim)
            s == call.split_size
        IN /\ (L = 0 /\ s = 0) => ret = Ok(<<call.self>>)
           /\ (L = 0 /\ s >= 1) => ret = Raise("IndexError")
           /\ (L >= 1 /\ s = 0) => ret = Raise("AssertionError")

\* ---------------------------------------------------------------------
\* meta_diag.
\* ---------------------------------------------------------------------
\* Tensor.new_empty(size): a negative size is rejected.
new_empty(size) ==
    IF \E i \in 1..Len(size) : size[i] < 0 THEN Raise("RuntimeError") ELSE Ok(size)

MinInt(a, b) == IF a <= b THEN a ELSE b

meta_diag(self_shape, dim) ==
    IF Len(self_shape) \notin {1, 2} THEN Raise("matrix or a vector expected")
    ELSE IF Len(self_shape) = 1
    THEN LET sz == self_shape[1] + Abs(dim) IN new_empty(<<sz, sz>>)
    ELSE LET sz == IF dim >= 0
                   THEN MinInt(self_shape[1], self_shape[2] - dim)
                   ELSE MinInt(self_shape[1] + dim, self_shape[2])
         IN new_empty(<<sz>>)

MaxDiagRank == 3

MaxDiagDim == 3

MaxDiagOffset == 4

InitDiag ==
    /\ ret = NoRet
    /\ \E r \in 0..MaxDiagRank :
       \E shape \in [1..r -> 0..MaxDiagDim], k \in (0 - MaxDiagOffset)..MaxDiagOffset :
          call = [op |-> "diag", self_shape |-> shape, dim |-> k]

DoMetaDiag ==
    /\ call.op = "diag"
    /\ ret = NoRet
    /\ ret' = meta_diag(call.self_shape, call.dim)
    /\ UNCHANGED call

NextDiag == DoMetaDiag

SpecDiag == InitDiag /\ [][NextDiag]_vars

\* The number of elements (i, i + k) of an r x c matrix.
DiagonalLength(r, c, k) == Cardinality({i \in 0..(r - 1) : i + k \in 0..(c - 1)})

\* C30: meta_diag returns, for a 1-D input of length n and offset k, the
\* shape (n+|k|, n+|k|), and for a 2-D input (r, c) the shape (d,) with d
\* the number of elements on diagonal k, which is 0 when the offset lies
\* outside the matrix; every size in the shape is non-negative.
C30_DiagShape ==
    (call.op = "diag" /\ ret # NoRet /\ Len(call.self_shape) \in {1, 2}) =>
        LET k == call.dim
        IN IF Len(call.self_shape) = 1
           THEN ret = Ok(<<call.self_shape[1] + Abs(k), call.self_shape[1] + Abs(k)>>)
           ELSE ret = Ok(<<DiagonalLength(call.self_shape[1], call.self_shape[2], k)>>)

\* What the rule does for a matrix: min(r, c - k) or min(r + k, c), a
\* negative number when the offset is beyond the matrix, which new_empty
\* rejects.
DiagShapeAsCoded ==
    (call.op = "diag" /\ ret # NoRet /\ Len(call.self_shape) = 2) =>
        LET r == call.self_shape[1]
            c == call.self_shape[2]
            k == call.dim
        IN IF k > c \/ k < 0 - r THEN ret = Raise("RuntimeError")
           ELSE ret = Ok(<<DiagonalLength(r, c, k)>>)

\* ---------------------------------------------------------------------
\* elu_backward.  An element of the result is coef * exp(exp_of), with
\* exp_of = 0 where no exponential is taken.
\* ---------------------------------------------------------------------
TimesExp(coef, exp_of) == [coef |-> coef, exp_of |-> exp_of]

Plain(x) == TimesExp(x, Whole(0))

\* One element of torch.where(self_or_result <= 0, ..., ...); the
\* comparison is false for nan.
elu_backward_elem(g, alpha, scale, input_scale, is_result, x) ==
    LET negcoef == FMul(alpha, scale)
        poscoef == scale
        negiptcoef == input_scale
    IN IF is_result
       THEN IF FLeq(x, Whole(0))
            THEN Plain(FMul(FMul(g, negiptcoef), FAdd(x, negcoef)))
            ELSE Plain(FMul(x, poscoef))
       ELSE IF FLeq(x, Whole(0))
            THEN TimesExp(FMul(FMul(g, negiptcoef), negcoef), FMul(x, negiptcoef))
            ELSE Plain(FMul(g, poscoef))

elu_backward(grad_output, alpha, scale, input_scale, is_result, self_or_result) ==
    Ok(Tensor(self_or_result.shape,
              [i \in 1..Len(self_or_result.data) |->
                  elu_backward_elem(grad_output.data[i], alpha, scale, input_scale,
                                    is_result, self_or_result.data[i])]))

MaxEluNumel == 2

EluCoefficients == {Whole(1), Whole(2), Frac(1, 2)}

InitElu ==
    /\ ret = NoRet
    /\ \E n \in 1..MaxEluNumel :
       \E g \in [1..n -> ActGrads], x \in [1..n -> ActValues] :
       \E alpha \in EluCoefficients, scale \in EluCoefficients :
       \E input_scale \in EluCoefficients, is_result \in BOOLEAN :
          call = [op |-> "elu_backward", grad_output |-> Tensor(<<n>>, g),
                  alpha |-> alpha, scale |-> scale, input_scale |-> input_scale,
                  is_result |-> is_result, self_or_result |-> Tensor(<<n>>, x)]

DoEluBackward ==
    /\ call.op = "elu_backward"
    /\ ret = NoRet
    /\ ret' = elu_backward(call.grad_output, call.alpha, call.scale, call.input_scale,
                           call.is_result, call.self_or_result)
    /\ UNCHANGED call

NextElu == DoEluBackward

SpecElu == InitElu /\ [][NextElu]_vars

EluFinished == call.op = "elu_backward" /\ ret # NoRet

PositiveElements ==
    {i \in 1..Len(call.self_or_result.data) : FLess(Whole(0), call.self_or_result.data[i])}

\* C27: at every element with self_or_result > 0, elu_backward returns
\* grad_output * scale, with is_result set and with is_result not set.
C27_PositiveBranch ==
    EluFinished =>
        \A i \in PositiveElements :
           ret.value.data[i] = Plain(FMul(call.grad_output.data[i], call.scale))

\* What the rule does at a positive element: grad_output * scale when
\* is_result is not set, self_or_result * scale when it is.
PositiveBranchAsCoded ==
    EluFinished =>
        \A i \in PositiveElements :
           ret.value.data[i] =
              IF call.is_result
              THEN Plain(FMul(call.self_or_result.data[i], call.scale))
              ELSE Plain(FMul(call.grad_output.data[i], call.scale))

====
